---- MODULE Spec2Model ----
(***************************************************************************)
(* LoraUrbit bridge: the GWMP UDP server (receive loop, gateway tracker,   *)
(* downlink sender), the Airlock HTTP client, the uplink forwarder and the *)
(* outbox poller, as state machines over the suspension points of the     *)
(* Rust code (every .await on a socket, a lock, a channel or HTTP).        *)
(***************************************************************************)
EXTENDS Integers, Sequences, FiniteSets, TLC

\* ------------------------------------------------------------ bounds
\* datagrams the receive loop reads in one run
MaxDatagrams == 2
\* send_downlink invocations made by the stand-alone caller in SpecUdp
MaxDownlinkCalls == 1

\* client operations the owner starts in SpecClient
MaxClientCalls == 3

\* wake-ups of the outbox poller
MaxTicks == 2
\* datagrams the receive loop reads while the poller runs in SpecPoller
MaxPollerDatagrams == 1
\* datagrams the two gateway sockets read in SpecPair
MaxPairDatagrams == 2
\* keepalive ticks in SpecPair
MaxKeepalives == 1
\* the longest FRMPayload handed to the encoder
MaxPhyPayload == 242
\* the longest byte sequence handed to the decoder as it is
MaxRawLen == 13
\* the largest max_retries handed to connect_with_retry, and the calls made
MaxRetries == 7
MaxRetryCalls == 2
\* packets waiting on the uplink channel in the first state of SpecChan
ChanResume == 254
\* pokes the forwarder makes in SpecChan
MaxChanPokes == 2
\* downlinks the poller has dispatched before the first state of SpecPoller
FcntResume == 65534
\* value of the pair's token counter in the first state of SpecToken
TokenResume == 65534

\* ------------------------------------------------------------ GWMP codec
PROTOCOL_VERSION == 2
PushData == 0
PushAck == 1
PullData == 2
PullResp == 3
PullAck == 4
TxAck == 5

None == "None"
\* source addresses (ip:port) datagrams arrive from
Addrs == {"S1", "S2"}
\* 16-bit tokens used by the inputs: 0x002A and 0xFF00 (distinct high/low bytes)
Tokens == {42, 65280}
\* rand_token(): the low 16 bits of the clock's nanoseconds; the value is opaque
\* to every reader, one representative stands for all (0x1234)
RandTokens == {4660}
GatewayEui == <<170, 187, 204, 221, 238, 255, 0, 17>>

\* put_u16: big-endian
U16Be(t) == <<t \div 256, t % 256>>
\* get_u16_le: little-endian
GetU16Le(b, i) == b[i] + b[i + 1] * 256
\* get_u16: big-endian
GetU16(b, i) == b[i] * 256 + b[i + 1]

\* A datagram body (the bytes after the header and the gateway EUI) is kept
\* abstract: its length class, whether it is UTF-8, and what serde_json makes
\* of it.  t = "empty" (no bytes), "badutf8", "badjson" (UTF-8, not a
\* PushDataPayload), "json" (a PushDataPayload whose rxpk array is rxpk).
\* For a TX_ACK body that is JSON, ack tells whether it has a "txpk_ack" member
\* and what txpk_ack.get("error").and_then(as_str) yields (an Option, kept as a
\* sequence of at most one string).
NoAck == [txpk_ack |-> FALSE, error |-> <<>>]
Body(t, rx) == [t |-> t, rxpk |-> rx, ack |-> NoAck]
TxAckJson(txpk_ack, error) ==
    [t |-> "json", rxpk |-> <<>>, ack |-> [txpk_ack |-> txpk_ack, error |-> error]]
NoBody == Body("empty", <<>>)
\* What base64_decode + decode_phy_payload + frame_to_lora_packet make of one
\* rxpk entry: "data" yields a LoRaPacket, "join" a non-Data frame, "badb64"
\* fails base64, "badphy" fails the LoRaWAN decode.
RxpkKinds == {"data", "join", "badb64", "badphy"}
BodyLen(body) == IF body.t = "empty" THEN 0 ELSE 2

ParseErr(why) == [ok |-> FALSE, why |-> why, kind |-> 255, token |-> 0, body |-> NoBody]
ParseOk(kind, token, body) == [ok |-> TRUE, why |-> "", kind |-> kind, token |-> token, body |-> body]

\* GwmpPacket::parse with an arm for every packet type: PUSH_ACK, PULL_ACK and
\* PULL_RESP are returned as their own variants
ParseEveryKind(hdr, body) ==
    LET len == Len(hdr) + BodyLen(body)
        remaining == len - 4
    IN  IF len < 4 THEN ParseErr("too_short")
        ELSE IF hdr[1] # PROTOCOL_VERSION THEN ParseErr("version")
        ELSE IF hdr[4] \notin 0..5 THEN ParseErr("unknown_kind")
        ELSE IF hdr[4] \in {PushAck, PullAck, PullResp}
             THEN ParseOk(hdr[4], GetU16(hdr, 2), NoBody)
        ELSE IF remaining < 8 THEN ParseErr("short_eui")
        ELSE IF hdr[4] # PullData /\ body.t = "badutf8" THEN ParseErr("utf8")
        ELSE ParseOk(hdr[4], GetU16(hdr, 2), IF hdr[4] = PullData THEN NoBody ELSE body)

\* GwmpPacket::parse over the header bytes hdr (version, token, kind and as much
\* of the gateway EUI as the datagram holds) and the body that follows them.
Parse(hdr, body) ==
    LET len == Len(hdr) + BodyLen(body)
        remaining == len - 4
    IN  IF len < 4 THEN ParseErr("too_short")
        ELSE IF hdr[1] # PROTOCOL_VERSION THEN ParseErr("version")
        ELSE IF hdr[4] \notin 0..5 THEN ParseErr("unknown_kind")
        ELSE IF hdr[4] = PushData THEN
            IF remaining < 8 THEN ParseErr("short_eui")
            ELSE IF body.t = "badutf8" THEN ParseErr("utf8")
            ELSE ParseOk(PushData, GetU16(hdr, 2), body)
        ELSE IF hdr[4] = PullData THEN
            IF remaining < 8 THEN ParseErr("short_eui")
            ELSE ParseOk(PullData, GetU16(hdr, 2), NoBody)
        ELSE IF hdr[4] = TxAck THEN
            IF remaining < 8 THEN ParseErr("short_eui")
            ELSE IF body.t = "badutf8" THEN ParseErr("utf8")
            ELSE ParseOk(TxAck, GetU16(hdr, 2), body)
        ELSE ParseErr("unexpected_kind")

\* GwmpPacket::push_ack with the token bytes swapped (little-endian)
push_ack_le(random_token) ==
    <<PROTOCOL_VERSION, random_token % 256, random_token \div 256, PushAck>>
\* GwmpPacket::push_ack
push_ack(random_token) == <<PROTOCOL_VERSION>> \o U16Be(random_token) \o <<PushAck>>
\* GwmpPacket::pull_ack
pull_ack(random_token) == <<PROTOCOL_VERSION>> \o U16Be(random_token) \o <<PullAck>>
\* GwmpPacket::pull_resp: the 4-byte header; the JSON envelope follows it
pull_resp(random_token) == <<PROTOCOL_VERSION>> \o U16Be(random_token) \o <<PullResp>>

Hdr(kind, token) == <<PROTOCOL_VERSION>> \o U16Be(token) \o <<kind>>
Dg(src, hdr, body) == [src |-> src, hdr |-> hdr, body |-> body]

\* The datagrams the gateway side sends here: two PUSH_DATA and two PULL_DATA
\* (different sources and tokens), a TX_ACK and a datagram that is too short.
Datagrams ==
    { Dg("S1", Hdr(PushData, 42) \o GatewayEui, Body("json", <<"data", "data">>)),
      Dg("S2", Hdr(PushData, 65280) \o GatewayEui, Body("json", <<"join", "data">>)),
      Dg("S1", Hdr(PullData, 42) \o GatewayEui, NoBody),
      Dg("S2", Hdr(PullData, 65280) \o GatewayEui, NoBody),
      Dg("S1", Hdr(TxAck, 42) \o GatewayEui, NoBody),
      Dg("S1", <<PROTOCOL_VERSION, 0>>, NoBody) }

\* ------------------------------------------------------------ state
VARIABLES
    tracker,    \* GatewayTracker.inner: None or the tracked address
    rpc,        \* receive loop: where it is suspended
    cur,        \* receive loop: the packet handle_packet is working on
    rxi,        \* receive loop: rxpk entries of cur already handled
    nrecv,      \* datagrams read so far
    chan,       \* mpsc channel C3 -> C5: queued LoRaPackets
    dl,         \* the send_downlink call in progress
    ndl,        \* send_downlink calls made by the stand-alone caller
    log,        \* history: what was parsed, written, sent and returned, in order
    client,     \* the AirlockClients: channel_id, next_id, connected of each
    uidCtr,     \* channel ids handed out so far (each Uuid::new_v4 is fresh)
    http,       \* history: the poke calls and HTTP requests of the clients
    ncall,      \* client operations started by the owner in SpecClient
    fwd,        \* run_airlock_task: where it is suspended, the packet it holds
    pol,        \* run_outbound_task: where it is suspended, messages, fcnt, last frame
    plog,       \* history of run_outbound_task: messages, frames, result pokes
    gw,         \* gateway-pair: bridge_addr of both sides, token_counter, the loops
    glog,       \* history of the gateway pair: datagrams received and sent
    phy,        \* LoRaWAN codec: the builder, the bytes and the decoder's result
    mainpc,     \* main: "running" until the interrupt signal, then "returned"
    cwr         \* connect_with_retry followed step by step: attempt, logins, sleeps

vars == <<tracker, rpc, cur, rxi, nrecv, chan, dl, ndl, log, client, uidCtr, http, ncall,
          fwd, pol, plog, gw, glog, phy, mainpc, cwr>>
\* the codec in use and main's position
libVars == <<phy, mainpc, cwr>>
\* the state of the gateway-pair binary
pairVars == <<gw, glog>>
\* the state of the two tasks
taskVars == <<fwd, pol, plog>>
\* the state outside the UDP server core
appVars == <<client, uidCtr, http, ncall, fwd, pol, plog, gw, glog, phy, mainpc, cwr>>
\* the state of the UDP server core
udpVars == <<tracker, rpc, cur, rxi, nrecv, chan, dl, ndl, log>>

NoPkt == [src |-> None, kind |-> 255, token |-> 0, body |-> NoBody, n |-> 0]
DlIdle == [pc |-> "idle", addr |-> None, res |-> "", by |-> ""]

\* history events, one record shape
Ev(e, by, addr, kind, token, bytes, ok) ==
    [e |-> e, by |-> by, addr |-> addr, kind |-> kind, token |-> token, bytes |-> bytes, ok |-> ok]
EvRx(src, kind, token) == Ev("rx", "recv", src, kind, token, <<>>, TRUE)
EvTx(by, dst, bytes, ok) == Ev("tx", by, dst, bytes[4], GetU16(bytes, 2), bytes, ok)
EvSet(addr) == Ev("set", "recv", addr, 255, 0, <<>>, TRUE)
EvDrop(src, why) == Ev(why, "recv", src, 255, 0, <<>>, FALSE)
EvReport(src, token, ok) == Ev("report", "recv", src, TxAck, token, <<>>, ok)
EvDlGet(addr) == Ev("dlget", "dl", addr, 255, 0, <<>>, TRUE)
EvDlRet(res) == Ev("dlret", "dl", None, 255, 0, <<>>, res = "ok")

\* ------------------------------------------------------------ Airlock client
\* HTTP answers to a PUT on the channel: a 2xx status, 401, 403, another
\* non-2xx status, or no answer at all (reqwest's send() fails)
Statuses == {"2xx", "401", "403", "500", "neterr"}
\* answers the retried PUT is tried with
RetryStatuses == {"2xx", "401", "500", "neterr"}

\* the JSON poked to the agent: LoRaAction::Uplink(packet), TxAck::success(id),
\* TxAck::failure(id)
Uplink(packet) == [k |-> "uplink", a |-> packet.dg, b |-> packet.ix]
TxAckSuccess(msg_id) == [k |-> "tx-ack", a |-> msg_id, b |-> 0]
TxAckFailure(msg_id) == [k |-> "tx-fail", a |-> msg_id, b |-> 0]
NoJson == [k |-> "", a |-> 0, b |-> 0]

\* AirlockClient::new: a fresh channel id, next_id 1, not connected
NewClient(uid) == [channel_id |-> uid, next_id |-> 1, connected |-> FALSE]

\* history of one client's HTTP traffic and calls, one record shape:
\* e = "call"/"ret" bracket a poke call (c: the client's fields at that point,
\* resp: "ok"/"err" on "ret"); "login", "poke", "ack", "delete" are requests
\* with the channel uid, the id in the body and the answer received.
H(cl, e, uid, id, what, resp, c) ==
    [cl |-> cl, e |-> e, uid |-> uid, id |-> id, what |-> what, resp |-> resp, c |-> c]

\* what a client operation hands back: the client's fields after it, the
\* requests it sent, and Ok or Err
Done(c, sent, ok) == [c |-> c, sent |-> sent, ok |-> ok]

\* AirlockClient::connect with the login answered lg ("ok": 2xx or 3xx)
connect(cl, c, lg) ==
    LET rq == H(cl, "login", c.channel_id, 0, NoJson, lg, c)
    IN  IF lg = "ok" THEN Done([c EXCEPT !.connected = TRUE], <<rq>>, TRUE)
        ELSE Done(c, <<rq>>, FALSE)

\* AirlockClient::reconnect that keeps the channel id
reconnect_same_channel(cl, c, fresh, lg) == connect(cl, [c EXCEPT !.next_id = 1], lg)
\* AirlockClient::reconnect: new channel id, next_id = 1, connect()
reconnect(cl, c, fresh, lg) ==
    connect(cl, [c EXCEPT !.channel_id = fresh, !.next_id = 1], lg)

\* AirlockClient::poke_inner: the retried PUT, with the id taken before
poke_inner(cl, c, json_data, msg_id, r2) ==
    Done(c, <<H(cl, "poke", c.channel_id, msg_id, json_data, r2, c)>>, r2 = "2xx")

\* AirlockClient::ack_events: takes the next id and PUTs the ack; the answer
\* is ignored
ack_events(cl, c) ==
    Done([c EXCEPT !.next_id = c.next_id + 1],
         <<H(cl, "ack", c.channel_id, c.next_id, NoJson, "any", c)>>, TRUE)

\* AirlockClient::poke with the first PUT answered r1, the re-login lg and the
\* retried PUT r2; fresh is the channel id Uuid::new_v4 yields on a rebind
poke(cl, c, json_data, r1, lg, r2, fresh) ==
    IF ~c.connected THEN Done(c, <<>>, FALSE)
    ELSE
        LET msg_id == c.next_id
            c1 == [c EXCEPT !.next_id = c.next_id + 1]
            first == <<H(cl, "poke", c1.channel_id, msg_id, json_data, r1, c1)>>
        IN  IF r1 = "neterr" THEN Done(c1, first, FALSE)
            ELSE IF r1 # "2xx" THEN
                IF r1 \in {"401", "403"} THEN
                    LET rc == reconnect(cl, [c1 EXCEPT !.connected = FALSE], fresh, lg)
                    IN  IF ~rc.ok THEN Done(rc.c, first \o rc.sent, FALSE)
                        ELSE LET in == poke_inner(cl, rc.c, json_data, msg_id, r2)
                             IN  Done(in.c, first \o rc.sent \o in.sent, in.ok)
                ELSE Done(c1, first, FALSE)
            ELSE LET ak == ack_events(cl, c1)
                 IN  Done(ak.c, first \o ak.sent, TRUE)

\* the answers one poke call can meet
PokeAnswers ==
    { <<r1, "none", "none">> : r1 \in Statuses \ {"401", "403"} }
    \cup { <<r1, "fail", "none">> : r1 \in {"401", "403"} }
    \cup { <<r1, "ok", r2>> : r1 \in {"401", "403"}, r2 \in RetryStatuses }

\* AirlockClient::connect_with_retry(max_retries) when the first `fails` logins
\* are refused: connect() is repeated until it succeeds or max_retries attempts
\* have failed
RECURSIVE connect_with_retry(_, _, _, _)
connect_with_retry(cl, c, max_retries, fails) ==
    IF fails = 0 THEN connect(cl, c, "ok")
    ELSE LET r == connect(cl, c, "fail")
         IN  IF max_retries <= 1 THEN r
             ELSE LET rest == connect_with_retry(cl, r.c, max_retries - 1, fails - 1)
                  IN  Done(rest.c, r.sent \o rest.sent, rest.ok)

\* AirlockClient::disconnect that sends its delete request whatever connected says
disconnect_unchecked(cl, c) ==
    Done([c EXCEPT !.next_id = c.next_id + 1, !.connected = FALSE],
         <<H(cl, "delete", c.channel_id, c.next_id, NoJson, "any", c)>>, TRUE)
\* AirlockClient::disconnect: best-effort delete request, then connected = false
disconnect(cl, c) ==
    IF ~c.connected THEN Done(c, <<>>, TRUE)
    ELSE Done([c EXCEPT !.next_id = c.next_id + 1, !.connected = FALSE],
              <<H(cl, "delete", c.channel_id, c.next_id, NoJson, "any", c)>>, TRUE)

\* capacity of the mpsc channel between the receive loop and the forwarder
ChannelCapacity == 256

\* ------------------------------------------------------------ GatewayTracker
\* GatewayTracker::set that keeps an address already held (first wins)
set_first(guard, addr) == IF guard = None THEN addr ELSE guard
\* GatewayTracker::set: the new content of the cell
set(guard, addr) == addr
\* GatewayTracker::get
get(guard) == guard

\* gateway_pair main: both bridge_addr None, token_counter 0x1000, both receive
\* loops at recv_from
\* ------------------------------------------------------------ gateway pair
GATEWAY_A_EUI == <<170, 0, 0, 0, 0, 0, 0, 1>>
GATEWAY_B_EUI == <<187, 0, 0, 0, 0, 0, 0, 2>>
Sides == {"A", "B"}
\* the other gateway
Peer(name) == IF name = "A" THEN "B" ELSE "A"
\* my_eui of gateway_recv_loop(name, ...)
my_eui(name) == IF name = "A" THEN GATEWAY_A_EUI ELSE GATEWAY_B_EUI
\* the relay that stamps the receiving gateway's own EUI
own_eui(name) == IF name = "A" THEN GATEWAY_A_EUI ELSE GATEWAY_B_EUI
\* `let peer_eui = if name == "A" { &GATEWAY_B_EUI } else { &GATEWAY_A_EUI }`
peer_eui(name) == IF name = "A" THEN GATEWAY_B_EUI ELSE GATEWAY_A_EUI
\* BRIDGE_A_ADDR / BRIDGE_B_ADDR: the configured bridge of a gateway
bridge_default(name) == IF name = "A" THEN "BrA" ELSE "BrB"

\* A serde_json::Value in a txpk or rxpk object: absent, a string, an integer
\* ("num") or a number with a fraction ("float", n in tenths)
JMissing == [t |-> "missing", n |-> 0, s |-> ""]
JNum(n) == [t |-> "num", n |-> n, s |-> ""]
JFloat(n) == [t |-> "float", n |-> n, s |-> ""]
JStr(str) == [t |-> "str", n |-> 0, s |-> str]
\* the keys a txpk object carries here
TxFields == {"imme", "freq", "powe", "modu", "datr", "codr", "ipol", "size", "data"}
Txpk(freq, datr, codr, size, data) ==
    [f \in TxFields |->
        CASE f = "freq" -> freq [] f = "datr" -> datr [] f = "codr" -> codr
          [] f = "size" -> size [] f = "data" -> data
          [] f = "imme" -> JNum(1) [] f = "powe" -> JNum(14)
          [] f = "modu" -> JStr("LORA") [] f = "ipol" -> JNum(1)]
\* what serde_json::from_slice makes of the bytes after a PULL_RESP header:
\* parse (it is JSON), has_txpk (the value has a "txpk" member), txpk
NoTxpk == [f \in TxFields |-> JMissing]
Js(parse, has_txpk, txpk) == [parse |-> parse, has_txpk |-> has_txpk, txpk |-> txpk]
NoJs == Js(FALSE, FALSE, NoTxpk)

\* txpk_to_rxpk: the object inside {"rxpk": [ ... ]}
txpk_to_rxpk(txpk) ==
    LET freq == IF txpk["freq"].t \in {"num", "float"}
                THEN JFloat(IF txpk["freq"].t = "num" THEN 10 * txpk["freq"].n ELSE txpk["freq"].n)
                ELSE JFloat(9023)
        datr == IF txpk["datr"].t = "str" THEN txpk["datr"] ELSE JStr("SF7BW125")
        codr == IF txpk["codr"].t = "str" THEN txpk["codr"] ELSE JStr("4/5")
        as_u64 == IF txpk["size"].t = "num" /\ txpk["size"].n >= 0 THEN txpk["size"].n ELSE 0
        size == JNum(as_u64 % 65536)
        data == IF txpk["data"].t = "str" THEN txpk["data"] ELSE JStr("")
    IN  [freq |-> freq, rssi |-> JNum(-60), lsnr |-> JFloat(80), datr |-> datr,
         codr |-> codr, size |-> size, data |-> data, modu |-> JStr("LORA"),
         tmst |-> JNum(0)]

\* build_push_ack, build_pull_ack, build_push_data (header and gateway EUI; the
\* JSON payload follows), build_pull_data, build_tx_ack
build_push_ack(token) == <<PROTOCOL_VERSION, token \div 256, token % 256, PushAck>>
build_pull_ack(token) == <<PROTOCOL_VERSION, token \div 256, token % 256, PullAck>>
build_push_data(token, gateway_eui) ==
    <<PROTOCOL_VERSION, token \div 256, token % 256, PushData>> \o gateway_eui
build_pull_data(token, gateway_eui) ==
    <<PROTOCOL_VERSION, token \div 256, token % 256, PullData>> \o gateway_eui
build_tx_ack(token, gateway_eui) ==
    <<PROTOCOL_VERSION, token \div 256, token % 256, TxAck>> \o gateway_eui

\* ------------------------------------------------------------ LoRaWAN PHY codec
\* bytes are 0..255; a u32 and a u64 are kept as their bytes, most significant
\* first; Option<u8> is the empty or the one-element sequence
MTypes == << "JoinRequest", "JoinAccept", "UnconfirmedDataUp", "UnconfirmedDataDown",
             "ConfirmedDataUp", "ConfirmedDataDown", "RejoinRequest", "Proprietary" >>
DataMTypes == {"UnconfirmedDataUp", "UnconfirmedDataDown", "ConfirmedDataUp", "ConfirmedDataDown"}
\* MType::try_from: (value >> 5) & 0x07
MType_try_from(value) == MTypes[((value \div 32) % 8) + 1]

\* u16::to_be_bytes
u16_to_be_bytes(x) == <<x \div 256, x % 256>>
\* u16::to_le_bytes
u16_to_le_bytes(x) == <<x % 256, x \div 256>>
\* u16::from_le_bytes
u16_from_le_bytes(b) == b[1] + 256 * b[2]
\* u32::to_le_bytes, u32::from_le_bytes, u64::from_le_bytes: least significant first
Reversed(b) == [i \in 1..Len(b) |-> b[Len(b) + 1 - i]]
u32_to_le_bytes(v) == Reversed(v)
u32_from_le_bytes(b) == Reversed(b)
u64_from_le_bytes(b) == Reversed(b)

\* FrameBuilder
FrameBuilder(mtype, dev_addr, fcnt, f_port, payload) ==
    [mtype |-> mtype, dev_addr |-> dev_addr, fcnt |-> fcnt, f_port |-> f_port,
     payload |-> payload]
\* FrameBuilder::new_downlink
new_downlink(dev_addr, fcnt, f_port, payload) ==
    FrameBuilder("UnconfirmedDataDown", dev_addr, fcnt, f_port, payload)
NoBuilder == FrameBuilder("", <<>>, 0, 0, <<>>)

\* FrameBuilder::build
build(self) ==
    LET mhdr == CASE self.mtype = "UnconfirmedDataDown" -> 96
                  [] self.mtype = "ConfirmedDataDown" -> 160
                  [] self.mtype = "UnconfirmedDataUp" -> 64
                  [] self.mtype = "ConfirmedDataUp" -> 128
                  [] OTHER -> 96
    IN  <<mhdr>> \o u32_to_le_bytes(self.dev_addr) \o <<0>> \o u16_to_le_bytes(self.fcnt)
          \o (IF self.payload # <<>> THEN <<self.f_port>> \o self.payload ELSE <<>>)
          \o <<0, 0, 0, 0>>

\* FCtrl
FCtrl(fctrl_byte) ==
    [adr |-> (fctrl_byte \div 128) % 2 = 1,
     adr_ack_req |-> (fctrl_byte \div 64) % 2 = 1,
     ack |-> (fctrl_byte \div 32) % 2 = 1,
     class_b |-> (fctrl_byte \div 16) % 2 = 1,
     f_opts_len |-> fctrl_byte % 16]

\* Result<LoRaWANFrame>: kind is the variant, the fields of the other variants
\* are left at their zero
Decoded(ok, err, kind, f) ==
    [ok |-> ok, err |-> err, kind |-> kind, mtype |-> f.mtype, dev_addr |-> f.dev_addr,
     fctrl |-> f.fctrl, fcnt |-> f.fcnt, f_opts |-> f.f_opts, f_port |-> f.f_port,
     frm_payload |-> f.frm_payload, mic |-> f.mic, app_eui |-> f.app_eui,
     dev_eui |-> f.dev_eui, dev_nonce |-> f.dev_nonce, payload |-> f.payload]
NoFields ==
    [mtype |-> "", dev_addr |-> <<>>, fctrl |-> FCtrl(0), fcnt |-> 0, f_opts |-> <<>>,
     f_port |-> <<>>, frm_payload |-> <<>>, mic |-> <<>>, app_eui |-> <<>>,
     dev_eui |-> <<>>, dev_nonce |-> 0, payload |-> <<>>]
DecodeErr(err) == Decoded(FALSE, err, "none", NoFields)
NoDecoded == DecodeErr("")

\* decode_join_request
decode_join_request(data) ==
    IF Len(data) # 23 THEN DecodeErr("join_len")
    ELSE Decoded(TRUE, "", "JoinRequest",
                 [NoFields EXCEPT !.app_eui = u64_from_le_bytes(SubSeq(data, 2, 9)),
                                  !.dev_eui = u64_from_le_bytes(SubSeq(data, 10, 17)),
                                  !.dev_nonce = u16_from_le_bytes(SubSeq(data, 18, 19)),
                                  !.mic = u32_from_le_bytes(SubSeq(data, 20, 23))])

\* the rest of decode_data_frame, after its length check
decode_data_fields(mtype, data) ==
    LET fctrl == FCtrl(data[6])
        f_opts_end == 8 + fctrl.f_opts_len
        mic_start == Len(data) - 4
    IN  IF f_opts_end > Len(data) - 4 THEN DecodeErr("fopts_len")
        ELSE Decoded(TRUE, "", "Data",
                 [NoFields EXCEPT
                     !.mtype = mtype,
                     !.dev_addr = u32_from_le_bytes(SubSeq(data, 2, 5)),
                     !.fctrl = fctrl,
                     !.fcnt = u16_from_le_bytes(SubSeq(data, 7, 8)),
                     !.f_opts = SubSeq(data, 9, f_opts_end),
                     !.f_port = IF f_opts_end < mic_start THEN <<data[f_opts_end + 1]>>
                                ELSE <<>>,
                     !.frm_payload = IF f_opts_end < mic_start
                                     THEN SubSeq(data, f_opts_end + 2, mic_start)
                                     ELSE <<>>,
                     !.mic = u32_from_le_bytes(SubSeq(data, mic_start + 1, Len(data)))])

\* decode_data_frame that asks for the eight bytes before the MIC only
decode_data_frame_min8(mtype, data) ==
    IF Len(data) < 8 THEN DecodeErr("too_short") ELSE decode_data_fields(mtype, data)
\* decode_data_frame that wants a byte between FOpts and the MIC
decode_data_frame_fport_required(mtype, data) ==
    IF Len(data) < 12 THEN DecodeErr("too_short")
    ELSE IF 8 + FCtrl(data[6]).f_opts_len >= Len(data) - 4 THEN DecodeErr("fopts_len")
    ELSE decode_data_fields(mtype, data)
\* decode_data_frame
decode_data_frame(mtype, data) ==
    IF Len(data) < 12 THEN DecodeErr("too_short") ELSE decode_data_fields(mtype, data)

\* decode_phy_payload
decode_phy_payload(data) ==
    IF data = <<>> THEN DecodeErr("empty")
    ELSE LET mtype == MType_try_from(data[1])
         IN  CASE mtype = "JoinRequest" -> decode_join_request(data)
               [] mtype = "JoinAccept" ->
                    Decoded(TRUE, "", "JoinAccept", [NoFields EXCEPT !.payload = Tail(data)])
               [] mtype \in DataMTypes -> decode_data_frame(mtype, data)
               [] mtype = "Proprietary" ->
                    Decoded(TRUE, "", "Proprietary", [NoFields EXCEPT !.payload = Tail(data)])
               [] OTHER -> DecodeErr("rejoin")

\* the codec before its first call
PhyIdle == [pc |-> "idle", b |-> NoBuilder, bytes |-> <<>>, out |-> NoDecoded]
\* connect_with_retry before it is called
CwrIdle == [pc |-> "idle", max_retries |-> 0, attempt |-> 0, tried |-> <<>>, slept |-> <<>>,
            res |-> ""]
\* the state outside the server, the tasks and the gateway pair
InitLib ==
    /\ phy = PhyIdle
    /\ mainpc = "running"
    /\ cwr = CwrIdle

\* ------------------------------------------------------------ gateway pair, start
\* A datagram on a gateway socket: source, the header bytes (with as much of
\* the gateway EUI as there is), the raw bytes after them (PUSH_DATA), and
\* what the bytes after a PULL_RESP header parse to
GwDg(src, hdr, raw, js) == [src |-> src, hdr |-> hdr, raw |-> raw, js |-> js, n |-> 0]
NoGwPkt == GwDg(None, <<>>, <<>>, NoJs)
GwLoopInit == [pc |-> "recv", pkt |-> NoGwPkt, token |-> 0, relay_token |-> 0, peer_bridge |-> None]
InitPair ==
    /\ gw = [bridge_addr |-> [g \in {"A", "B"} |-> None],
             token_counter |-> 4096,
             loop |-> [g \in {"A", "B"} |-> GwLoopInit],
             nrecv |-> 0,
             nka |-> 0]
    /\ glog = <<>>

\* the clients of the forwarder (C5) and of the poller (C6), as
\* AirlockClient::new leaves them
InitClients ==
    /\ client = [c \in {"c5", "c6"} |-> NewClient(IF c = "c5" THEN 1 ELSE 2)]
    /\ uidCtr = 2
    /\ http = <<>>
    /\ ncall = 0

\* run_airlock_task before its first statement
FwdInit == [pc |-> "start", pkt |-> None]
\* run_outbound_task before its first statement
PolInit == [pc |-> "start", msgs |-> <<>>, fcnt |-> 0, base |-> 0, ticks |-> 0,
            frame_bytes |-> <<>>]

InitUdp ==
    /\ InitClients
    /\ InitPair
    /\ InitLib
    /\ fwd = FwdInit
    /\ pol = PolInit
    /\ plog = <<>>
    /\ tracker = None
    /\ rpc = "recv"
    /\ cur = NoPkt
    /\ rxi = 0
    /\ nrecv = 0
    /\ chan = <<>>
    /\ dl = DlIdle
    /\ ndl = 0
    /\ log = <<>>

\* ------------------------------------------------------------ receive loop
\* socket.recv_from returns a datagram; GwmpPacket::parse; handle_packet
\* dispatches on the variant.  A datagram that does not parse is dropped; a
\* TX_ACK is only logged.
\* handle_packet's TxAck arm that takes a txpk_ack without an error string
\* for a failure
tx_ack_result_strict(body) ==
    IF body.t = "empty" THEN "ok"
    ELSE IF body.t # "json" THEN "silent"
    ELSE IF ~body.ack.txpk_ack THEN "ok"
    ELSE IF body.ack.error = <<"NONE">> THEN "ok" ELSE "error"
\* handle_packet's TxAck arm: what it reports; "silent" when the body is not
\* JSON and nothing is logged
tx_ack_result(body) ==
    IF body.t = "empty" THEN "ok"
    ELSE IF body.t # "json" THEN "silent"
    ELSE IF ~body.ack.txpk_ack THEN "ok"
    ELSE IF body.ack.error = <<>> \/ body.ack.error = <<"NONE">> THEN "ok" ELSE "error"

\* recv_from has returned the datagram d: parse, and handle_packet up to its
\* first await (the TxAck, PushAck and PullAck arms have none)
Received(d) ==
    LET p == Parse(d.hdr, d.body)
        pkt == [src |-> d.src, kind |-> p.kind, token |-> p.token,
                body |-> p.body, n |-> nrecv + 1]
        result == tx_ack_result(p.body)
    IN  /\ nrecv' = nrecv + 1
        /\ IF ~p.ok THEN log' = Append(log, EvDrop(d.src, p.why)) /\ UNCHANGED <<rpc, cur>>
           ELSE IF p.kind = TxAck
           THEN /\ log' = log \o <<EvRx(d.src, p.kind, p.token)>>
                              \o (IF result = "silent" THEN <<>>
                                  ELSE <<EvReport(d.src, p.token, result = "ok")>>)
                /\ UNCHANGED <<rpc, cur>>
           ELSE /\ log' = Append(log, EvRx(d.src, p.kind, p.token))
                /\ IF p.kind = PushData THEN rpc' = "push_ack" /\ cur' = pkt
                   ELSE IF p.kind = PullData THEN rpc' = "pull_set" /\ cur' = pkt
                   ELSE UNCHANGED <<rpc, cur>>

RecvFrom(inputs) ==
    /\ rpc = "recv"
    /\ nrecv < MaxDatagrams
    /\ \E d \in inputs : Received(d)
    /\ UNCHANGED <<tracker, rxi, chan, dl, ndl>>
    /\ UNCHANGED appVars

RecvDatagram == RecvFrom(Datagrams)

\* run_server's loop: `socket.recv_from(&mut buf).await?` returns the error to
\* the caller and the loop is over
RecvErrorReturns ==
    /\ rpc = "recv"
    /\ nrecv < MaxDatagrams
    /\ nrecv' = nrecv + 1
    /\ log' = Append(log, EvDrop(None, "recv_err"))
    /\ rpc' = "returned"
    /\ UNCHANGED <<tracker, cur, rxi, chan, dl, ndl>>
    /\ UNCHANGED appVars

\* start_server's loop, socket.recv_from returns Err: the error is logged and
\* the loop goes round
RecvError ==
    /\ rpc = "recv"
    /\ nrecv < MaxDatagrams
    /\ nrecv' = nrecv + 1
    /\ log' = Append(log, EvDrop(None, "recv_err"))
    /\ UNCHANGED <<tracker, rpc, cur, rxi, chan, dl, ndl>>
    /\ UNCHANGED appVars

\* PushData arm with a tracker write added before the ACK
PushAckSendAndSet ==
    /\ rpc = "push_ack"
    /\ \E ok \in BOOLEAN :
        log' = log \o <<EvSet(cur.src), EvTx("recv", cur.src, push_ack(cur.token), ok)>>
    /\ tracker' = set(tracker, cur.src)
    /\ rpc' = "push_body"
    /\ UNCHANGED <<cur, rxi, nrecv, chan, dl, ndl>>
    /\ UNCHANGED appVars

\* PushData arm that goes on to the body without sending the PUSH_ACK
PushAckLeftOut ==
    /\ rpc = "push_ack"
    /\ rpc' = "push_body"
    /\ UNCHANGED <<tracker, log, cur, rxi, nrecv, chan, dl, ndl>>
    /\ UNCHANGED appVars

\* PushData arm: socket.send_to(&push_ack(random_token), src); a send error is
\* logged and the handling goes on
PushAckSend ==
    /\ rpc = "push_ack"
    /\ \E ok \in BOOLEAN :
        log' = Append(log, EvTx("recv", cur.src, push_ack(cur.token), ok))
    /\ rpc' = "push_body"
    /\ UNCHANGED <<tracker, cur, rxi, nrecv, chan, dl, ndl>>
    /\ UNCHANGED appVars

\* PushData arm: serde_json::from_str::<PushDataPayload>; without an rxpk
\* array (or with a body that is no PushDataPayload) the handling ends
PushBody ==
    /\ rpc = "push_body"
    /\ IF cur.body.t = "json" /\ Len(cur.body.rxpk) > 0
       THEN rpc' = "rxpk" /\ rxi' = 0 /\ cur' = cur
       ELSE rpc' = "recv" /\ rxi' = 0 /\ cur' = NoPkt
    /\ UNCHANGED <<tracker, nrecv, chan, dl, ndl, log>>
    /\ UNCHANGED appVars

\* frame_to_lora_packet for the rxpk entry at index i of datagram number n
LoRaPacket(n, i) == [dg |-> n, ix |-> i]

\* PushData arm, one turn of the loop with tx.try_send in place of tx.send: a
\* packet that meets a full channel is dropped
PushRxpkTrySend ==
    /\ rpc = "rxpk"
    /\ LET i == rxi + 1
           isData == cur.body.rxpk[i] = "data"
           sent == isData /\ fwd.pc # "exit" /\ Len(chan) < ChannelCapacity
       IN  /\ chan' = IF sent THEN Append(chan, LoRaPacket(cur.n, i)) ELSE chan
           /\ log' = IF sent
                     THEN Append(log, Ev("enq", "recv", cur.src, PushData, cur.token, <<cur.n, i>>, TRUE))
                     ELSE log
           /\ IF i = Len(cur.body.rxpk)
              THEN rpc' = "recv" /\ rxi' = 0 /\ cur' = NoPkt
              ELSE rpc' = "rxpk" /\ rxi' = i /\ cur' = cur
    /\ UNCHANGED <<tracker, nrecv, dl, ndl>>
    /\ UNCHANGED appVars

\* PushData arm whose loop ends at the first rxpk entry that yields no packet
PushRxpkStopAtError ==
    /\ rpc = "rxpk"
    /\ LET i == rxi + 1
           isData == cur.body.rxpk[i] = "data"
           closed == fwd.pc = "exit"
           sent == isData /\ ~closed
       IN  /\ sent => Len(chan) < ChannelCapacity
           /\ chan' = IF sent THEN Append(chan, LoRaPacket(cur.n, i)) ELSE chan
           /\ log' = IF sent
                     THEN Append(log, Ev("enq", "recv", cur.src, PushData, cur.token, <<cur.n, i>>, TRUE))
                     ELSE log
           /\ IF i = Len(cur.body.rxpk) \/ ~isData
              THEN rpc' = "recv" /\ rxi' = 0 /\ cur' = NoPkt
              ELSE rpc' = "rxpk" /\ rxi' = i /\ cur' = cur
    /\ UNCHANGED <<tracker, nrecv, dl, ndl>>
    /\ UNCHANGED appVars

\* PushData arm, one turn of `for rxpk in rxpks`: base64_decode,
\* decode_phy_payload, frame_to_lora_packet and tx.send(lora_pkt).await, which
\* waits while the channel is full and fails (logged only) once the receiver is
\* dropped
PushRxpk ==
    /\ rpc = "rxpk"
    /\ LET i == rxi + 1
           isData == cur.body.rxpk[i] = "data"
           closed == fwd.pc = "exit"
           sent == isData /\ ~closed
       IN  /\ sent => Len(chan) < ChannelCapacity
           /\ chan' = IF sent THEN Append(chan, LoRaPacket(cur.n, i)) ELSE chan
           /\ log' = IF sent
                     THEN Append(log, Ev("enq", "recv", cur.src, PushData, cur.token, <<cur.n, i>>, TRUE))
                     ELSE log
           /\ IF i = Len(cur.body.rxpk)
              THEN rpc' = "recv" /\ rxi' = 0 /\ cur' = NoPkt
              ELSE rpc' = "rxpk" /\ rxi' = i /\ cur' = cur
    /\ UNCHANGED <<tracker, nrecv, dl, ndl>>
    /\ UNCHANGED appVars

\* PullData arm that goes on to the ACK without the tracker write
PullSkipSet ==
    /\ rpc = "pull_set"
    /\ rpc' = "pull_ack"
    /\ UNCHANGED <<tracker, log, cur, rxi, nrecv, chan, dl, ndl>>
    /\ UNCHANGED appVars

\* PullData arm: gateway.set(src).await
PullSet ==
    /\ rpc = "pull_set"
    /\ tracker' = set(tracker, cur.src)
    /\ log' = Append(log, EvSet(cur.src))
    /\ rpc' = "pull_ack"
    /\ UNCHANGED <<cur, rxi, nrecv, chan, dl, ndl>>
    /\ UNCHANGED appVars

\* PullData arm: socket.send_to(&pull_ack(random_token), src)
PullAckSend ==
    /\ rpc = "pull_ack"
    /\ \E ok \in BOOLEAN :
        log' = Append(log, EvTx("recv", cur.src, pull_ack(cur.token), ok))
    /\ rpc' = "recv"
    /\ cur' = NoPkt
    /\ UNCHANGED <<tracker, rxi, nrecv, chan, dl, ndl>>
    /\ UNCHANGED appVars

\* ------------------------------------------------------------ downlink sender
\* DownlinkSender::send_downlink up to the read of the tracker:
\* self.gateway.get().await.ok_or_else(no gateway address known)?
SendDownlinkGet ==
    /\ dl.pc = "get"
    /\ LET gw_addr == get(tracker)
       IN  IF gw_addr = None
           THEN /\ dl' = [dl EXCEPT !.pc = "done", !.res = "no_gateway"]
                /\ log' = log \o <<EvDlGet(None), EvDlRet("no_gateway")>>
           ELSE /\ dl' = [dl EXCEPT !.pc = "send", !.addr = gw_addr]
                /\ log' = Append(log, EvDlGet(gw_addr))
    /\ UNCHANGED <<tracker, rpc, cur, rxi, nrecv, chan, ndl>>
    /\ UNCHANGED appVars

\* send_downlink that sends to the address the tracker holds when the datagram
\* leaves, not to the one read at the call
SendDownlinkSendLate ==
    /\ dl.pc = "send"
    /\ \E token \in RandTokens, ok \in BOOLEAN :
        /\ log' = log \o <<EvTx("dl", tracker, pull_resp(token), ok),
                           EvDlRet(IF ok THEN "ok" ELSE "socket")>>
        /\ dl' = [dl EXCEPT !.pc = "done", !.res = IF ok THEN "ok" ELSE "socket"]
    /\ UNCHANGED <<tracker, rpc, cur, rxi, nrecv, chan, ndl>>
    /\ UNCHANGED appVars

\* send_downlink that hands the datagram to the socket and then waits for the
\* gateway's TX_ACK before it returns
SendDownlinkSendAwaitAck ==
    /\ dl.pc = "send"
    /\ \E token \in RandTokens, ok \in BOOLEAN :
        /\ log' = log \o <<EvTx("dl", dl.addr, pull_resp(token), ok)>>
        /\ dl' = [dl EXCEPT !.pc = "await"]
    /\ UNCHANGED <<tracker, rpc, cur, rxi, nrecv, chan, ndl>>
    /\ UNCHANGED appVars

\* send_downlink that forgets the gateway address when the socket refuses the
\* datagram
SendDownlinkSendForget ==
    /\ dl.pc = "send"
    /\ \E token \in RandTokens, ok \in BOOLEAN :
        /\ log' = log \o <<EvTx("dl", dl.addr, pull_resp(token), ok),
                           EvDlRet(IF ok THEN "ok" ELSE "socket")>>
        /\ dl' = [dl EXCEPT !.pc = "done", !.res = IF ok THEN "ok" ELSE "socket"]
        /\ tracker' = IF ok THEN tracker ELSE None
    /\ UNCHANGED <<rpc, cur, rxi, nrecv, chan, ndl>>
    /\ UNCHANGED appVars

\* send_downlink from the token on: rand_token(), GwmpPacket::pull_resp,
\* self.socket.send_to(&packet, gw_addr).await?, Ok(())
SendDownlinkSend ==
    /\ dl.pc = "send"
    /\ \E token \in RandTokens, ok \in BOOLEAN :
        /\ log' = log \o <<EvTx("dl", dl.addr, pull_resp(token), ok),
                           EvDlRet(IF ok THEN "ok" ELSE "socket")>>
        /\ dl' = [dl EXCEPT !.pc = "done", !.res = IF ok THEN "ok" ELSE "socket"]
    /\ UNCHANGED <<tracker, rpc, cur, rxi, nrecv, chan, ndl>>
    /\ UNCHANGED appVars

\* a holder of the DownlinkSender handle calls send_downlink (after taking the
\* result of its previous call)
CallerInvoke ==
    /\ dl.pc \in {"idle", "done"}
    /\ ndl < MaxDownlinkCalls
    /\ dl' = [DlIdle EXCEPT !.pc = "get", !.by = "caller"]
    /\ ndl' = ndl + 1
    /\ UNCHANGED <<tracker, rpc, cur, rxi, nrecv, chan, log>>
    /\ UNCHANGED appVars

NextUdp ==
    \/ RecvDatagram
    \/ RecvError
    \/ PushAckSend
    \/ PushBody
    \/ PushRxpk
    \/ PullSet
    \/ PullAckSend
    \/ SendDownlinkGet
    \/ SendDownlinkSend
    \/ CallerInvoke

\* The UDP server core with a caller of the downlink handle
SpecUdp == InitUdp /\ [][NextUdp]_vars

\* ------------------------------------------------------------ TX_ACK
\* TX_ACKs with the bodies handle_packet tells apart, next to a PUSH_DATA and a
\* PULL_DATA that fill the channel and the tracker
TxAckDatagrams ==
    { Dg("S1", Hdr(TxAck, 42) \o GatewayEui, NoBody),
      Dg("S2", Hdr(TxAck, 65280) \o GatewayEui, TxAckJson(TRUE, <<"NONE">>)),
      Dg("S2", Hdr(TxAck, 43) \o GatewayEui, TxAckJson(TRUE, <<>>)),
      Dg("S2", Hdr(TxAck, 44) \o GatewayEui, TxAckJson(TRUE, <<"TOO_LATE">>)),
      Dg("S2", Hdr(TxAck, 45) \o GatewayEui, TxAckJson(TRUE, <<"">>)),
      Dg("S2", Hdr(TxAck, 46) \o GatewayEui, TxAckJson(FALSE, <<>>)),
      Dg("S2", Hdr(TxAck, 47) \o GatewayEui, Body("badjson", <<>>)) }
TxAckOthers ==
    { Dg("S1", Hdr(PushData, 42) \o GatewayEui, Body("json", <<"data">>)),
      Dg("S1", Hdr(PullData, 42) \o GatewayEui, NoBody) }
RecvTxAck == RecvFrom(TxAckDatagrams \cup TxAckOthers)

NextTxAck ==
    \/ RecvTxAck
    \/ PushAckSend
    \/ PushBody
    \/ PushRxpk
    \/ PullSet
    \/ PullAckSend
    \/ SendDownlinkGet
    \/ SendDownlinkSend
    \/ CallerInvoke
SpecTxAck == InitUdp /\ [][NextTxAck]_vars

\* ------------------------------------------------------------ malformed input
\* Datagrams GwmpPacket::parse rejects: empty, too short, wrong version,
\* unknown kind, a kind a gateway never sends, gateway EUI cut short, body
\* that is not UTF-8
BadDatagrams ==
    { Dg("S2", <<>>, NoBody),
      Dg("S1", <<PROTOCOL_VERSION, 0>>, NoBody),
      Dg("S2", <<1, 0, 42, PushData>> \o GatewayEui, Body("json", <<"data">>)),
      Dg("S2", Hdr(9, 42) \o GatewayEui, NoBody),
      Dg("S2", Hdr(PushAck, 42), NoBody),
      Dg("S2", Hdr(PushData, 42) \o <<1, 2, 3>>, NoBody),
      Dg("S2", Hdr(PullData, 42) \o <<1, 2, 3, 4, 5, 6, 7>>, NoBody),
      Dg("S2", Hdr(TxAck, 65280) \o <<1, 2, 3, 4, 5, 6, 7>>, NoBody),
      Dg("S1", <<PROTOCOL_VERSION, 0, 42>>, NoBody),
      Dg("S1", <<3, 255, 0, 9>>, NoBody),
      Dg("S2", Hdr(PushData, 42) \o GatewayEui, Body("badutf8", <<>>)),
      Dg("S2", Hdr(TxAck, 42) \o GatewayEui, Body("badutf8", <<>>)) }

\* why the receive loop drops what recv_from returned
DropReasons ==
    {"too_short", "version", "unknown_kind", "unexpected_kind", "short_eui", "utf8", "recv_err"}

\* well-formed datagrams of the kinds a server sends: PUSH_ACK, PULL_ACK and
\* a PULL_RESP with its JSON envelope
AckDatagrams ==
    { Dg("S1", Hdr(PushAck, 42), NoBody),
      Dg("S2", Hdr(PullAck, 65280), NoBody),
      Dg("S1", Hdr(PullResp, 42), Body("json", <<>>)) }

RecvAny == RecvFrom(Datagrams \cup BadDatagrams \cup AckDatagrams)

NextRecv ==
    \/ RecvAny
    \/ RecvError
    \/ PushAckSend
    \/ PushBody
    \/ PushRxpk
    \/ PullSet
    \/ PullAckSend
    \/ SendDownlinkGet
    \/ SendDownlinkSend
    \/ CallerInvoke

\* The UDP server core fed well-formed and malformed datagrams
SpecRecv == InitUdp /\ [][NextRecv]_vars

\* The UDP server core fed every datagram above, with a caller of the downlink
\* handle
RecvTracker == RecvFrom(Datagrams \cup BadDatagrams \cup AckDatagrams \cup TxAckDatagrams)
NextTracker ==
    \/ RecvTracker
    \/ RecvError
    \/ PushAckSend
    \/ PushBody
    \/ PushRxpk
    \/ PullSet
    \/ PullAckSend
    \/ SendDownlinkGet
    \/ SendDownlinkSend
    \/ CallerInvoke
SpecTracker == InitUdp /\ [][NextTracker]_vars

\* ------------------------------------------------------------ mixed rxpk arrays
\* PUSH_DATA datagrams told apart by their tokens: an rxpk array that mixes
\* entries failing base64, failing the LoRaWAN decode, decoding to a join
\* request and decoding to data frames; a body that is no PushDataPayload; a
\* body without rxpk entries; an array without any data frame
RxpkDatagrams ==
    { Dg("S1", Hdr(PushData, 42) \o GatewayEui,
         Body("json", <<"badb64", "data", "badphy", "join", "data">>)),
      Dg("S1", Hdr(PushData, 43) \o GatewayEui, Body("badjson", <<>>)),
      Dg("S2", Hdr(PushData, 44) \o GatewayEui, Body("json", <<>>)),
      Dg("S2", Hdr(PushData, 45) \o GatewayEui, Body("json", <<"badphy", "join">>)) }

RecvRxpk == RecvFrom(RxpkDatagrams)

NextRxpk ==
    \/ RecvRxpk
    \/ PushAckSend
    \/ PushBody
    \/ PushRxpk

\* The receive loop fed PUSH_DATA with mixed rxpk arrays
SpecRxpk == InitUdp /\ [][NextRxpk]_vars

\* ------------------------------------------------------------ gateway pair, loops
\* an entry of the pair's history: "rx" (datagram n read on sock from peer),
\* "set" (bridge_addr of sock := peer), "read" (bridge_addr of sock or its
\* default, read as peer), "tx" (datagram sent from sock to peer)
G(e, by, sock, peer, n, hdr, raw, rxpk, js, ok) ==
    [e |-> e, by |-> by, sock |-> sock, peer |-> peer, n |-> n, hdr |-> hdr,
     raw |-> raw, rxpk |-> rxpk, js |-> js, ok |-> ok]

\* what arrives on the gateway sockets here: PUSH_DATA (one with another
\* version byte and a body that is not UTF-8, one cut short), PULL_DATA, and
\* PULL_RESP with a txpk, with a txpk of odd members, without txpk, and with
\* a body that is not JSON
PairDatagrams ==
    { GwDg("BrA", Hdr(PushData, 42) \o GatewayEui, <<123, 125>>, NoJs),
      GwDg("X", <<1, 0, 7, PushData>> \o GatewayEui, <<255>>, NoJs),
      GwDg("BrA", Hdr(PushData, 42) \o <<1, 2, 3>>, <<>>, NoJs),
      GwDg("X", Hdr(PullData, 65280) \o GatewayEui, <<>>, NoJs),
      GwDg("BrB", Hdr(PullResp, 4660), <<>>,
           Js(TRUE, TRUE, Txpk(JFloat(9239), JStr("SF10BW500"), JStr("4/5"), JNum(17), JStr("YO++")))),
      GwDg("BrB", Hdr(PullResp, 4661), <<>>,
           Js(TRUE, TRUE, Txpk(JFloat(8681), JMissing, JStr("4/6"), JNum(70000), JStr("")))),
      GwDg("BrA", Hdr(PullResp, 4662), <<>>, Js(TRUE, FALSE, NoTxpk)),
      GwDg("X", Hdr(PullResp, 4663), <<123>>, NoJs) }

\* a counter that stops at its largest value
FetchAddSaturating(g) ==
    [g EXCEPT !.token_counter = IF g.token_counter = 65535 THEN 65535 ELSE g.token_counter + 1]
\* token_counter.fetch_add(1, Relaxed) on the AtomicU16
FetchAdd(g) == [g EXCEPT !.token_counter = (g.token_counter + 1) % 65536]

\* gateway_recv_loop, from recv_from to the first await of the arm taken
GwRecv(name) ==
    /\ gw.loop[name].pc = "recv"
    /\ gw.nrecv < MaxPairDatagrams
    /\ \E d \in PairDatagrams :
        LET n == gw.nrecv + 1
            len == Len(d.hdr) + Len(d.raw)
            g1 == [gw EXCEPT !.nrecv = n]
            lp == [gw.loop[name] EXCEPT !.pkt = [d EXCEPT !.n = n]]
            ptype == d.hdr[4]
        IN  /\ glog' = Append(glog, G("rx", name, name, d.src, n, d.hdr, d.raw, <<>>, d.js, TRUE))
            /\ IF len < 4 THEN gw' = g1
               ELSE IF ptype = PushData /\ len >= 12
               THEN gw' = [g1 EXCEPT !.loop[name] =
                              [lp EXCEPT !.pc = "push_set", !.token = GetU16(d.hdr, 2)]]
               ELSE IF ptype = PullData /\ len >= 12
               THEN gw' = [g1 EXCEPT !.loop[name] =
                              [lp EXCEPT !.pc = "pull_set", !.token = GetU16(d.hdr, 2)]]
               ELSE IF ptype = PullResp
               THEN IF d.js.parse /\ d.js.has_txpk
                    THEN gw' = [FetchAdd(g1) EXCEPT !.loop[name] =
                                   [lp EXCEPT !.pc = "resp_read", !.token = GetU16(d.hdr, 2),
                                              !.relay_token = gw.token_counter]]
                    ELSE gw' = [g1 EXCEPT !.loop[name] =
                                   [lp EXCEPT !.pc = "tx_ack", !.token = GetU16(d.hdr, 2)]]
               ELSE gw' = g1
    /\ UNCHANGED <<tracker, rpc, cur, rxi, nrecv, chan, dl, ndl, log>>
    /\ UNCHANGED <<client, uidCtr, http, ncall, fwd, pol, plog>>
    /\ UNCHANGED libVars

\* PUSH_DATA and PULL_DATA arms: `state.bridge_addr = Some(src)` under the lock
GwSet(name) ==
    /\ gw.loop[name].pc \in {"push_set", "pull_set"}
    /\ LET lp == gw.loop[name]
       IN  /\ gw' = [gw EXCEPT !.bridge_addr[name] = lp.pkt.src,
                               !.loop[name].pc = IF lp.pc = "push_set" THEN "push_ack"
                                                 ELSE "pull_ack"]
           /\ glog' = Append(glog, G("set", name, name, lp.pkt.src, lp.pkt.n, <<>>, <<>>, <<>>, NoJs, TRUE))
    /\ UNCHANGED <<tracker, rpc, cur, rxi, nrecv, chan, dl, ndl, log>>
    /\ UNCHANGED <<client, uidCtr, http, ncall, fwd, pol, plog>>
    /\ UNCHANGED libVars

\* PUSH_DATA arm: my_sock.send_to(&build_push_ack(token), src), then the relay
\* token is taken from the shared counter.  PULL_DATA arm: the PULL_ACK.  The
\* result of either send is only printed and is not kept in the history.
GwAck(name) ==
    /\ gw.loop[name].pc \in {"push_ack", "pull_ack"}
    /\ LET lp == gw.loop[name]
           ack == IF lp.pc = "push_ack" THEN build_push_ack(lp.token)
                  ELSE build_pull_ack(lp.token)
       IN  /\ glog' = Append(glog, G("tx", name, name, lp.pkt.src, lp.pkt.n, ack, <<>>, <<>>, NoJs, TRUE))
           /\ gw' = IF lp.pc = "push_ack"
                    THEN [FetchAdd(gw) EXCEPT !.loop[name].pc = "push_read",
                                              !.loop[name].relay_token = gw.token_counter]
                    ELSE [gw EXCEPT !.loop[name] = GwLoopInit]
    /\ UNCHANGED <<tracker, rpc, cur, rxi, nrecv, chan, dl, ndl, log>>
    /\ UNCHANGED <<client, uidCtr, http, ncall, fwd, pol, plog>>
    /\ UNCHANGED libVars

\* both relays: `state.bridge_addr.unwrap_or(peer_bridge_default)` under the
\* peer's lock
GwRelayRead(name) ==
    /\ gw.loop[name].pc \in {"push_read", "resp_read"}
    /\ LET lp == gw.loop[name]
           held == gw.bridge_addr[Peer(name)]
           peer_bridge == IF held # None THEN held ELSE bridge_default(Peer(name))
       IN  /\ gw' = [gw EXCEPT !.loop[name].peer_bridge = peer_bridge,
                               !.loop[name].pc = IF lp.pc = "push_read" THEN "push_send"
                                                 ELSE "resp_send"]
           /\ glog' = Append(glog, G("read", name, Peer(name), peer_bridge, lp.pkt.n, <<>>, <<>>, <<>>, NoJs, TRUE))
    /\ UNCHANGED <<tracker, rpc, cur, rxi, nrecv, chan, dl, ndl, log>>
    /\ UNCHANGED <<client, uidCtr, http, ncall, fwd, pol, plog>>
    /\ UNCHANGED libVars

\* both relays: build_push_data(relay_token, peer_eui, payload) and
\* peer_sock.send_to(&relay_pkt, peer_bridge); an error is only printed
GwRelaySend(name) ==
    /\ gw.loop[name].pc \in {"push_send", "resp_send"}
    /\ LET lp == gw.loop[name]
           relay_hdr == build_push_data(lp.relay_token, peer_eui(name))
       IN  /\ \E ok \in BOOLEAN :
                glog' = Append(glog,
                    IF lp.pc = "push_send"
                    THEN G("tx", name, Peer(name), lp.peer_bridge, lp.pkt.n, relay_hdr,
                           lp.pkt.raw, <<>>, NoJs, ok)
                    ELSE G("tx", name, Peer(name), lp.peer_bridge, lp.pkt.n, relay_hdr,
                           <<>>, <<txpk_to_rxpk(lp.pkt.js.txpk)>>, NoJs, ok))
           /\ gw' = IF lp.pc = "push_send"
                    THEN [gw EXCEPT !.loop[name] = GwLoopInit]
                    ELSE [gw EXCEPT !.loop[name].pc = "tx_ack"]
    /\ UNCHANGED <<tracker, rpc, cur, rxi, nrecv, chan, dl, ndl, log>>
    /\ UNCHANGED <<client, uidCtr, http, ncall, fwd, pol, plog>>
    /\ UNCHANGED libVars

\* PULL_RESP arm that answers with the token of the relay
GwTxAckRelayToken(name) ==
    /\ gw.loop[name].pc = "tx_ack"
    /\ LET lp == gw.loop[name]
       IN  \E ok \in BOOLEAN :
               glog' = Append(glog, G("tx", name, name, lp.pkt.src, lp.pkt.n,
                                      build_tx_ack(lp.relay_token, my_eui(name)), <<>>, <<>>, NoJs, ok))
    /\ gw' = [gw EXCEPT !.loop[name] = GwLoopInit]
    /\ UNCHANGED <<tracker, rpc, cur, rxi, nrecv, chan, dl, ndl, log>>
    /\ UNCHANGED <<client, uidCtr, http, ncall, fwd, pol, plog>>
    /\ UNCHANGED libVars

\* PULL_RESP arm: my_sock.send_to(&build_tx_ack(token, my_eui), src)
GwTxAck(name) ==
    /\ gw.loop[name].pc = "tx_ack"
    /\ LET lp == gw.loop[name]
       IN  \E ok \in BOOLEAN :
               glog' = Append(glog, G("tx", name, name, lp.pkt.src, lp.pkt.n,
                                      build_tx_ack(lp.token, my_eui(name)), <<>>, <<>>, NoJs, ok))
    /\ gw' = [gw EXCEPT !.loop[name] = GwLoopInit]
    /\ UNCHANGED <<tracker, rpc, cur, rxi, nrecv, chan, dl, ndl, log>>
    /\ UNCHANGED <<client, uidCtr, http, ncall, fwd, pol, plog>>
    /\ UNCHANGED libVars

\* keepalive_loop, one tick: bridge_addr or the default, a token from the
\* shared counter, build_pull_data, sock.send_to (its result only printed)
GwKeepalive(name) ==
    /\ gw.nka < MaxKeepalives
    /\ LET held == gw.bridge_addr[name]
           bridge_addr == IF held # None THEN held ELSE bridge_default(name)
       IN  glog' = Append(glog, G("tx", "keepalive", name, bridge_addr, 0,
                                  build_pull_data(gw.token_counter, my_eui(name)),
                                  <<>>, <<>>, NoJs, TRUE))
    /\ gw' = [FetchAdd(gw) EXCEPT !.nka = gw.nka + 1]
    /\ UNCHANGED <<tracker, rpc, cur, rxi, nrecv, chan, dl, ndl, log>>
    /\ UNCHANGED <<client, uidCtr, http, ncall, fwd, pol, plog>>
    /\ UNCHANGED libVars

NextPair ==
    \/ \E name \in Sides : GwRecv(name)
    \/ \E name \in Sides : GwSet(name)
    \/ \E name \in Sides : GwAck(name)
    \/ \E name \in Sides : GwRelayRead(name)
    \/ \E name \in Sides : GwRelaySend(name)
    \/ \E name \in Sides : GwTxAck(name)
    \/ \E name \in Sides : GwKeepalive(name)

\* The gateway-pair binary: two receive loops and two keepalive loops
SpecPair == InitUdp /\ [][NextPair]_vars

\* The gateway-pair binary after TokenResume - 4096 tokens were handed out
InitToken ==
    /\ InitClients
    /\ InitLib
    /\ fwd = FwdInit /\ pol = PolInit /\ plog = <<>>
    /\ tracker = None /\ rpc = "recv" /\ cur = NoPkt /\ rxi = 0 /\ nrecv = 0
    /\ chan = <<>> /\ dl = DlIdle /\ ndl = 0 /\ log = <<>>
    /\ gw = [bridge_addr |-> [g \in {"A", "B"} |-> None],
             token_counter |-> TokenResume,
             loop |-> [g \in {"A", "B"} |-> GwLoopInit],
             nrecv |-> 0,
             nka |-> 0]
    /\ glog = <<>>
SpecToken == InitToken /\ [][NextPair]_vars

\* ------------------------------------------------------------ client owner
\* connect_with_retry(5) at the start of run_airlock_task and run_outbound_task
InitialRetries == 5
\* connect_with_retry(3) after a failure that left the client disconnected
ReconnectRetries == 3

\* a poke call as the history records it: "call", the requests, "ret"
PokeLogged(cl, c, json_data, r1, lg, r2, fresh) ==
    LET r == poke(cl, c, json_data, r1, lg, r2, fresh)
    IN  Done(r.c,
             <<H(cl, "call", c.channel_id, c.next_id, json_data, "", c)>> \o r.sent
                \o <<H(cl, "ret", r.c.channel_id, r.c.next_id, json_data,
                       IF r.ok THEN "ok" ELSE "err", r.c)>>,
             r.ok)

\* one client object shared by the tasks: the outcome r of an operation is
\* seen by every holder
TookShared(cl, r) ==
    /\ client' = [c \in DOMAIN client |-> r.c]
    /\ http' = http \o r.sent
    /\ uidCtr' = IF r.c.channel_id # client[cl].channel_id THEN uidCtr + 1 ELSE uidCtr

\* the client cl takes the outcome r of an operation
Took(cl, r) ==
    /\ client' = [client EXCEPT ![cl] = r.c]
    /\ http' = http \o r.sent
    /\ uidCtr' = IF r.c.channel_id # client[cl].channel_id THEN uidCtr + 1 ELSE uidCtr

\* the jsons the owner pokes in SpecClient
OwnerJsons == {Uplink([dg |-> 1, ix |-> 1]), TxAckSuccess(7)}

\* the owner connects: connect_with_retry(5) on the new client,
\* connect_with_retry(3) once is_connected() is false after a failure
OwnerConnect ==
    /\ ncall < MaxClientCalls
    /\ ~client["c5"].connected
    /\ LET n == IF http = <<>> THEN InitialRetries ELSE ReconnectRetries
       IN  \E fails \in {0, 1, n} :
               Took("c5", connect_with_retry("c5", client["c5"], n, fails))
    /\ ncall' = ncall + 1
    /\ UNCHANGED udpVars
    /\ UNCHANGED taskVars
    /\ UNCHANGED pairVars
    /\ UNCHANGED libVars

\* the owner pokes
OwnerPoke ==
    /\ ncall < MaxClientCalls
    /\ \E json_data \in OwnerJsons, ans \in PokeAnswers :
           Took("c5", PokeLogged("c5", client["c5"], json_data,
                                 ans[1], ans[2], ans[3], uidCtr + 1))
    /\ ncall' = ncall + 1
    /\ UNCHANGED udpVars
    /\ UNCHANGED taskVars
    /\ UNCHANGED pairVars
    /\ UNCHANGED libVars

\* the owner disconnects (channel closed)
OwnerDisconnect ==
    /\ ncall < MaxClientCalls
    /\ Took("c5", disconnect("c5", client["c5"]))
    /\ ncall' = ncall + 1
    /\ UNCHANGED udpVars
    /\ UNCHANGED taskVars
    /\ UNCHANGED pairVars
    /\ UNCHANGED libVars

NextClient ==
    \/ OwnerConnect
    \/ OwnerPoke
    \/ OwnerDisconnect

\* One AirlockClient in the hands of its owner
SpecClient == InitUdp /\ [][NextClient]_vars

\* ------------------------------------------------------------ uplink forwarder
\* the PUSH_DATA datagrams the gateways send in SpecFwd
FwdDatagrams == {d \in Datagrams : Len(d.hdr) >= 4 /\ d.hdr[4] = PushData}

\* the answers the host gives to the forwarder's pokes in SpecFwd
FwdAnswers ==
    { <<"2xx", "none", "none">>, <<"500", "none", "none">>,
      <<"401", "fail", "none">>, <<"403", "ok", "2xx">>, <<"401", "ok", "401">> }

\* run_airlock_task: client.connect_with_retry(5).await?; the task returns on
\* Err, which drops rx
FwdStart ==
    /\ fwd.pc = "start"
    /\ \E fails \in {0, InitialRetries} :
        LET r == connect_with_retry("c5", client["c5"], InitialRetries, fails)
        IN  /\ Took("c5", r)
            /\ fwd' = [fwd EXCEPT !.pc = IF r.ok THEN "recv" ELSE "exit"]
    /\ UNCHANGED udpVars
    /\ UNCHANGED <<ncall, pol, plog>>
    /\ UNCHANGED pairVars
    /\ UNCHANGED libVars

\* run_airlock_task that takes the newest queued packet
FwdRecvNewest ==
    /\ fwd.pc = "recv"
    /\ chan # <<>>
    /\ fwd' = [fwd EXCEPT !.pc = "poke", !.pkt = chan[Len(chan)]]
    /\ chan' = SubSeq(chan, 1, Len(chan) - 1)
    /\ UNCHANGED <<tracker, rpc, cur, rxi, nrecv, dl, ndl, log>>
    /\ UNCHANGED <<client, uidCtr, http, ncall, pol, plog>>
    /\ UNCHANGED pairVars
    /\ UNCHANGED libVars

\* run_airlock_task: `while let Some(packet) = rx.recv().await`
FwdRecv ==
    /\ fwd.pc = "recv"
    /\ chan # <<>>
    /\ fwd' = [fwd EXCEPT !.pc = "poke", !.pkt = Head(chan)]
    /\ chan' = Tail(chan)
    /\ UNCHANGED <<tracker, rpc, cur, rxi, nrecv, dl, ndl, log>>
    /\ UNCHANGED <<client, uidCtr, http, ncall, pol, plog>>
    /\ UNCHANGED pairVars
    /\ UNCHANGED libVars

\* run_airlock_task that keeps the packet after a failed poke and pokes it again
FwdPokeAgain ==
    /\ fwd.pc = "poke"
    /\ \E ans \in FwdAnswers :
        LET r == PokeLogged("c5", client["c5"], Uplink(fwd.pkt),
                            ans[1], ans[2], ans[3], uidCtr + 1)
        IN  /\ Took("c5", r)
            /\ fwd' = IF r.ok THEN [pc |-> "recv", pkt |-> None] ELSE fwd
    /\ UNCHANGED udpVars
    /\ UNCHANGED <<ncall, pol, plog>>
    /\ UNCHANGED pairVars
    /\ UNCHANGED libVars

\* run_airlock_task whose Err arm only logs
FwdPokeNoReconnect ==
    /\ fwd.pc = "poke"
    /\ \E ans \in FwdAnswers :
        LET r == PokeLogged("c5", client["c5"], Uplink(fwd.pkt),
                            ans[1], ans[2], ans[3], uidCtr + 1)
        IN  /\ Took("c5", r)
            /\ fwd' = [pc |-> "recv", pkt |-> None]
    /\ UNCHANGED udpVars
    /\ UNCHANGED <<ncall, pol, plog>>
    /\ UNCHANGED pairVars
    /\ UNCHANGED libVars

\* run_airlock_task, loop body: LoRaAction::Uplink(packet), client.poke; on Err
\* the error is logged and, if !client.is_connected(), a reconnect follows
FwdPoke ==
    /\ fwd.pc = "poke"
    /\ \E ans \in FwdAnswers :
        LET r == PokeLogged("c5", client["c5"], Uplink(fwd.pkt),
                            ans[1], ans[2], ans[3], uidCtr + 1)
        IN  /\ Took("c5", r)
            /\ fwd' = [pc |-> IF ~r.ok /\ ~r.c.connected THEN "reconn" ELSE "recv",
                       pkt |-> None]
    /\ UNCHANGED udpVars
    /\ UNCHANGED <<ncall, pol, plog>>
    /\ UNCHANGED pairVars
    /\ UNCHANGED libVars

\* run_airlock_task, Err arm: client.connect_with_retry(3), its error only
\* logged
FwdReconnect ==
    /\ fwd.pc = "reconn"
    /\ \E fails \in {0, ReconnectRetries} :
        Took("c5", connect_with_retry("c5", client["c5"], ReconnectRetries, fails))
    /\ fwd' = [fwd EXCEPT !.pc = "recv"]
    /\ UNCHANGED udpVars
    /\ UNCHANGED <<ncall, pol, plog>>
    /\ UNCHANGED pairVars
    /\ UNCHANGED libVars

NextFwd ==
    \/ RecvFrom(FwdDatagrams)
    \/ PushAckSend
    \/ PushBody
    \/ PushRxpk
    \/ FwdStart
    \/ FwdRecv
    \/ FwdPoke
    \/ FwdReconnect

\* The receive loop feeding the uplink forwarder
SpecFwd == InitUdp /\ [][NextFwd]_vars

\* ------------------------------------------------------------ shutdown
\* main (main.rs:103-107) waits for ctrl_c and returns Ok(()). It holds no
\* JoinHandle and no Sender: the Sender was moved into the receive loop's task
\* (udp/mod.rs:140-154). When main returns, #[tokio::main] drops the runtime,
\* and a spawned task that is suspended at an await is dropped there and never
\* polled again.
CtrlC ==
    /\ mainpc = "running"
    /\ mainpc' = "returned"
    /\ rpc' = "dropped"
    /\ fwd' = [fwd EXCEPT !.pc = "dropped"]
    /\ pol' = [pol EXCEPT !.pc = "dropped"]
    /\ UNCHANGED <<tracker, cur, rxi, nrecv, chan, dl, ndl, log>>
    /\ UNCHANGED <<client, uidCtr, http, ncall, plog>>
    /\ UNCHANGED pairVars
    /\ UNCHANGED <<phy, cwr>>

\* the bridge with its forwarder until the interrupt signal
Running == mainpc = "running"
NextShutdown ==
    \/ (Running /\ RecvFrom(FwdDatagrams))
    \/ (Running /\ PushAckSend)
    \/ (Running /\ PushBody)
    \/ (Running /\ PushRxpk)
    \/ (Running /\ FwdStart)
    \/ (Running /\ FwdRecv)
    \/ (Running /\ FwdPoke)
    \/ (Running /\ FwdReconnect)
    \/ CtrlC
SpecShutdown == InitUdp /\ [][NextShutdown]_vars

\* ------------------------------------------------------------ full channel
\* The bridge while the forwarder is still in its first connect_with_retry and
\* ChanResume packets of earlier datagrams wait on the channel
InitChan ==
    /\ InitClients
    /\ InitPair
    /\ InitLib
    /\ fwd = FwdInit
    /\ pol = PolInit
    /\ plog = <<>>
    /\ tracker = None
    /\ rpc = "recv"
    /\ cur = NoPkt
    /\ rxi = 0
    /\ nrecv = 0
    /\ chan = [i \in 1..ChanResume |-> LoRaPacket(0, i)]
    /\ dl = DlIdle
    /\ ndl = 0
    /\ log = <<>>

\* the poke calls the forwarder has made
FwdPokes == Cardinality({i \in DOMAIN http : http[i].cl = "c5" /\ http[i].e = "call"})

NextChan ==
    \/ RecvFrom(FwdDatagrams)
    \/ PushAckSend
    \/ PushBody
    \/ PushRxpk
    \/ FwdStart
    \/ FwdRecv
    \/ (FwdPokes < MaxChanPokes /\ FwdPoke)
    \/ FwdReconnect

\* The receive loop and the forwarder around a full channel
SpecChan == InitChan /\ [][NextChan]_vars

\* What the tokio runtime sees to: a task whose await can complete is polled.
\* The receive loop's sends and its enqueue, and the forwarder's rx.recv(),
\* complete by themselves once they can.  The forwarder's logins and pokes
\* complete when the host answers: AirlockClient::new builds its HTTP client
\* with cookie_store(true) only (airlock.rs:29-32), without a timeout, so
\* nothing in the program ends a request the host leaves unanswered.
FairLoop ==
    /\ WF_vars(PushAckSend) /\ WF_vars(PushBody) /\ WF_vars(PushRxpk)
    /\ WF_vars(FwdRecv)
\* every request of the forwarder is answered
FairHost ==
    /\ WF_vars(FwdStart) /\ WF_vars(FwdPokes < MaxChanPokes /\ FwdPoke)
    /\ WF_vars(FwdReconnect)
\* The receive loop and the forwarder around a full channel, fairly scheduled
SpecChanLive == SpecChan /\ FairLoop
\* the same with a host that answers every request
SpecChanAnswered == SpecChan /\ FairLoop /\ FairHost

\* ------------------------------------------------------------ outbox poller
\* strings are sequences of one-character strings
HexLower == <<"0", "1", "2", "3", "4", "5", "6", "7", "8", "9", "a", "b", "c", "d", "e", "f">>
HexUpper == <<"A", "B", "C", "D", "E", "F">>
IsHexDigit(ch) ==
    \/ \E i \in DOMAIN HexLower : HexLower[i] = ch
    \/ \E i \in DOMAIN HexUpper : HexUpper[i] = ch
\* char::to_digit(16)
HexVal(ch) ==
    IF \E i \in DOMAIN HexLower : HexLower[i] = ch
    THEN (CHOOSE i \in DOMAIN HexLower : HexLower[i] = ch) - 1
    ELSE (CHOOSE i \in DOMAIN HexUpper : HexUpper[i] = ch) + 9

RECURSIVE StripZeros(_)
StripZeros(s) == IF s # <<>> /\ s[1] = "0" THEN StripZeros(Tail(s)) ELSE s
RECURSIVE PadZeros(_, _)
PadZeros(s, n) == IF Len(s) >= n THEN s ELSE PadZeros(<<"0">> \o s, n)
\* the bytes two hex digits a pair make, in order
PairBytes(s) == [i \in 1..(Len(s) \div 2) |-> HexVal(s[2 * i - 1]) * 16 + HexVal(s[2 * i])]

\* u32::from_str_radix(src, 16): Err on the empty string, on a character that
\* is no hex digit (one leading "+" is taken) and on a value above u32::MAX;
\* the value is kept as its four bytes, most significant first
from_str_radix(src) ==
    LET digits == IF src # <<>> /\ src[1] = "+" THEN Tail(src) ELSE src
    IN  IF digits = <<>> \/ \E i \in DOMAIN digits : ~IsHexDigit(digits[i])
        THEN [ok |-> FALSE, v |-> <<>>]
        ELSE IF Len(StripZeros(digits)) > 8 THEN [ok |-> FALSE, v |-> <<>>]
        ELSE [ok |-> TRUE, v |-> PairBytes(PadZeros(StripZeros(digits), 8))]

\* hex::decode: Err on odd length and on a character that is no hex digit
hex_decode(data) ==
    IF Len(data) % 2 # 0 \/ \E i \in DOMAIN data : ~IsHexDigit(data[i])
    THEN [ok |-> FALSE, v |-> <<>>]
    ELSE [ok |-> TRUE, v |-> PairBytes(data)]

\* u16::wrapping_add that stops at u16::MAX
saturating_add(x, y) == IF x + y > 65535 THEN 65535 ELSE x + y
\* u16::wrapping_add
wrapping_add(x, y) == (x + y) % 65536

\* OutboundMessage, the fields run_outbound_task reads
OutboundMessage(id, src_addr, dest_addr, payload) ==
    [id |-> id, src_addr |-> src_addr, dest_addr |-> dest_addr, payload |-> payload]

\* what a scry of /outbox yields here: parse tells whether the JSON is an array
\* of OutboundMessage
Outboxes ==
    { [parse |-> FALSE, msgs |-> <<>>],
      [parse |-> TRUE, msgs |-> <<>>],
      [parse |-> TRUE, msgs |-> << OutboundMessage(7, <<>>, <<"D", "E", "A", "D", "B", "E", "E", "F">>,
                                                    <<"0", "1", "0", "2">>),
                                   OutboundMessage(8, <<"+", "1", "a">>, <<"z">>, <<>>) >>],
      [parse |-> TRUE, msgs |-> << OutboundMessage(9, <<"z", "z">>, <<"1", "a">>, <<"0", "1">>),
                                   OutboundMessage(10, <<>>, <<"1", "A">>, <<"0", "g">>),
                                   OutboundMessage(11, <<>>, <<"0", "1", "2", "3", "4", "5", "6", "7", "8">>,
                                                   <<"0", "1", "2">>) >>] }

\* AirlockClient::scry: one read request; out is how it ends ("ok", "err", or
\* "auth": refused and the client marked disconnected)
scry(cl, c, out) ==
    LET rq == H(cl, "scry", c.channel_id, 0, NoJson, out, c)
    IN  IF out = "ok" THEN Done(c, <<rq>>, TRUE)
        ELSE IF out = "auth" THEN Done([c EXCEPT !.connected = FALSE], <<rq>>, FALSE)
        ELSE Done(c, <<rq>>, FALSE)

\* the answers the host gives to the poller's pokes in SpecPoller
PolAnswers == { <<"2xx", "none", "none">>, <<"500", "none", "none">>, <<"401", "fail", "none">> }

\* an entry of the poller's history
P(e, id, n, s) == [e |-> e, id |-> id, n |-> n, s |-> s]

\* the PULL_DATA datagrams the gateways send in SpecPoller
PolDatagrams == {d \in Datagrams : Len(d.hdr) >= 4 /\ d.hdr[4] = PullData}

\* run_outbound_task: client.connect_with_retry(5).await?, `let mut fcnt: u16 = 0`
PolStart ==
    /\ pol.pc = "start"
    /\ \E fails \in {0, InitialRetries} :
        LET r == connect_with_retry("c6", client["c6"], InitialRetries, fails)
        IN  /\ Took("c6", r)
            /\ pol' = [pol EXCEPT !.pc = IF r.ok THEN "sleep" ELSE "exit", !.fcnt = 0]
    /\ UNCHANGED udpVars
    /\ UNCHANGED <<ncall, fwd, plog>>
    /\ UNCHANGED pairVars
    /\ UNCHANGED libVars

\* run_outbound_task whose scry error is returned with `?`
PolTickFatal ==
    /\ pol.pc = "sleep"
    /\ pol.ticks < MaxTicks
    /\ \E out \in {"ok", "err", "auth"}, outbox \in Outboxes :
        LET sc == scry("c6", client["c6"], out)
        IN  /\ Took("c6", sc)
            /\ pol' = IF ~sc.ok THEN [pol EXCEPT !.ticks = pol.ticks + 1, !.pc = "exit"]
                      ELSE IF outbox.parse /\ outbox.msgs # <<>>
                      THEN [pol EXCEPT !.ticks = pol.ticks + 1, !.pc = "msg",
                                       !.msgs = outbox.msgs]
                      ELSE [pol EXCEPT !.ticks = pol.ticks + 1]
    /\ UNCHANGED udpVars
    /\ UNCHANGED <<ncall, fwd, plog>>
    /\ UNCHANGED pairVars
    /\ UNCHANGED libVars

\* run_outbound_task that leaves out the messages it built a frame for before
PolTickSkipsDispatched ==
    /\ pol.pc = "sleep"
    /\ pol.ticks < MaxTicks
    /\ \E out \in {"ok", "err", "auth"}, outbox \in Outboxes, fails \in {0, ReconnectRetries} :
        LET sc == scry("c6", client["c6"], out)
            rc == IF ~sc.c.connected
                  THEN connect_with_retry("c6", sc.c, ReconnectRetries, fails)
                  ELSE Done(sc.c, <<>>, TRUE)
            fresh == SelectSeq(outbox.msgs,
                               LAMBDA m : ~\E k \in DOMAIN plog : plog[k].e = "frame" /\ plog[k].id = m.id)
        IN  IF ~sc.ok
            THEN /\ Took("c6", Done(rc.c, sc.sent \o rc.sent, FALSE))
                 /\ pol' = [pol EXCEPT !.ticks = pol.ticks + 1]
            ELSE /\ Took("c6", sc)
                 /\ pol' = IF outbox.parse /\ fresh # <<>>
                           THEN [pol EXCEPT !.ticks = pol.ticks + 1, !.pc = "msg",
                                            !.msgs = fresh]
                           ELSE [pol EXCEPT !.ticks = pol.ticks + 1]
    /\ UNCHANGED udpVars
    /\ UNCHANGED <<ncall, fwd, plog>>
    /\ UNCHANGED pairVars
    /\ UNCHANGED libVars

\* run_outbound_task, head of the loop: sleep, scry /outbox, on Err the
\* reconnect if !client.is_connected(), parse of the outbox, `continue` when
\* there is nothing to handle
PolTick ==
    /\ pol.pc = "sleep"
    /\ pol.ticks < MaxTicks
    /\ \E out \in {"ok", "err", "auth"}, outbox \in Outboxes, fails \in {0, ReconnectRetries} :
        LET sc == scry("c6", client["c6"], out)
            rc == IF ~sc.c.connected
                  THEN connect_with_retry("c6", sc.c, ReconnectRetries, fails)
                  ELSE Done(sc.c, <<>>, TRUE)
        IN  IF ~sc.ok
            THEN /\ Took("c6", Done(rc.c, sc.sent \o rc.sent, FALSE))
                 /\ pol' = [pol EXCEPT !.ticks = pol.ticks + 1]
            ELSE /\ Took("c6", sc)
                 /\ pol' = IF outbox.parse /\ outbox.msgs # <<>>
                           THEN [pol EXCEPT !.ticks = pol.ticks + 1, !.pc = "msg",
                                            !.msgs = outbox.msgs]
                           ELSE [pol EXCEPT !.ticks = pol.ticks + 1]
    /\ UNCHANGED udpVars
    /\ UNCHANGED <<ncall, fwd, plog>>
    /\ UNCHANGED pairVars
    /\ UNCHANGED libVars

\* the poller going on with the newest of the messages left
PolNextNewestFirst ==
    [pol EXCEPT !.msgs = Reversed(Tail(pol.msgs)),
                !.pc = IF Tail(pol.msgs) = <<>> THEN "sleep" ELSE "msg"]

\* the poller after the message at the head of pol.msgs
PolNext == [pol EXCEPT !.msgs = Tail(pol.msgs),
                       !.pc = IF Tail(pol.msgs) = <<>> THEN "sleep" ELSE "msg"]

\* the address that always is the destination's
addr_hex_dest(msg) == msg.dest_addr
\* run_outbound_task: `let addr_hex = if !msg.src_addr.is_empty() { &msg.src_addr }
\* else { &msg.dest_addr }`
addr_hex(msg) == IF msg.src_addr # <<>> THEN msg.src_addr ELSE msg.dest_addr

\* run_outbound_task, `for msg in &messages` up to the call of send_downlink:
\* a malformed address or payload is answered with the tx-fail poke and
\* `continue`; otherwise the frame is built with fcnt, fcnt is advanced and
\* send_downlink is called
PolMsg ==
    /\ pol.pc = "msg"
    /\ LET msg == Head(pol.msgs)
           dev_addr == from_str_radix(addr_hex(msg))
           payload_bytes == hex_decode(msg.payload)
           frame == new_downlink(dev_addr.v, pol.fcnt, 1, payload_bytes.v)
       IN  IF ~dev_addr.ok \/ ~payload_bytes.ok
           THEN /\ \E ans \in PolAnswers :
                     Took("c6", PokeLogged("c6", client["c6"], TxAckFailure(msg.id),
                                           ans[1], ans[2], ans[3], uidCtr + 1))
                /\ plog' = plog \o << P("msg", msg.id, 0, ""),
                                      P(IF ~dev_addr.ok THEN "badaddr" ELSE "badhex", msg.id, 0, ""),
                                      P("poke", msg.id, 0, "tx-fail") >>
                /\ pol' = PolNext
                /\ UNCHANGED dl
           ELSE /\ plog' = plog \o << P("msg", msg.id, 0, ""), P("frame", msg.id, pol.fcnt, "") >>
                /\ pol' = [pol EXCEPT !.fcnt = wrapping_add(pol.fcnt, 1), !.pc = "wait",
                                      !.frame_bytes = build(frame)]
                /\ dl' = [DlIdle EXCEPT !.pc = "get", !.by = "poller"]
                /\ UNCHANGED <<client, uidCtr, http>>
    /\ UNCHANGED <<tracker, rpc, cur, rxi, nrecv, chan, ndl, log>>
    /\ UNCHANGED <<ncall, fwd>>
    /\ UNCHANGED pairVars
    /\ UNCHANGED libVars

\* run_outbound_task that reports every handled downlink as sent
PolResultAlwaysAck ==
    /\ pol.pc = "wait"
    /\ dl.pc = "done"
    /\ LET msg == Head(pol.msgs)
       IN  /\ \E ans \in PolAnswers :
                Took("c6", PokeLogged("c6", client["c6"], TxAckSuccess(msg.id),
                                      ans[1], ans[2], ans[3], uidCtr + 1))
           /\ plog' = plog \o << P("dl", msg.id, 0, dl.res), P("poke", msg.id, 0, "tx-ack") >>
    /\ pol' = PolNext
    /\ dl' = DlIdle
    /\ UNCHANGED <<tracker, rpc, cur, rxi, nrecv, chan, ndl, log>>
    /\ UNCHANGED <<ncall, fwd>>
    /\ UNCHANGED pairVars
    /\ UNCHANGED libVars

\* run_outbound_task that takes fcnt back when send_downlink failed
PolResultTakesBack ==
    /\ pol.pc = "wait"
    /\ dl.pc = "done"
    /\ LET msg == Head(pol.msgs)
           json == IF dl.res = "ok" THEN TxAckSuccess(msg.id) ELSE TxAckFailure(msg.id)
       IN  /\ \E ans \in PolAnswers :
                Took("c6", PokeLogged("c6", client["c6"], json,
                                      ans[1], ans[2], ans[3], uidCtr + 1))
           /\ plog' = plog \o << P("dl", msg.id, 0, dl.res), P("poke", msg.id, 0, json.k) >>
    /\ pol' = [PolNext EXCEPT !.fcnt = IF dl.res = "ok" THEN pol.fcnt
                                       ELSE (pol.fcnt + 65535) % 65536]
    /\ dl' = DlIdle
    /\ UNCHANGED <<tracker, rpc, cur, rxi, nrecv, chan, ndl, log>>
    /\ UNCHANGED <<ncall, fwd>>
    /\ UNCHANGED pairVars
    /\ UNCHANGED libVars

\* run_outbound_task, `match downlink_sender.send_downlink(&txpk).await`:
\* Ok pokes TxAck::success(msg.id), Err pokes TxAck::failure(msg.id); the
\* result of the poke is only logged
PolResult ==
    /\ pol.pc = "wait"
    /\ dl.pc = "done"
    /\ LET msg == Head(pol.msgs)
           json == IF dl.res = "ok" THEN TxAckSuccess(msg.id) ELSE TxAckFailure(msg.id)
       IN  /\ \E ans \in PolAnswers :
                Took("c6", PokeLogged("c6", client["c6"], json,
                                      ans[1], ans[2], ans[3], uidCtr + 1))
           /\ plog' = plog \o << P("dl", msg.id, 0, dl.res), P("poke", msg.id, 0, json.k) >>
    /\ pol' = PolNext
    /\ dl' = DlIdle
    /\ UNCHANGED <<tracker, rpc, cur, rxi, nrecv, chan, ndl, log>>
    /\ UNCHANGED <<ncall, fwd>>
    /\ UNCHANGED pairVars
    /\ UNCHANGED libVars

\* The poller at program start, or after FcntResume downlinks that were all
\* dispatched before any gateway was heard (each refused by send_downlink and
\* reported with a tx-fail poke the host accepted: two ids per message)
InitPoller ==
    /\ \E b \in {0, FcntResume} :
          /\ pol = IF b = 0 THEN PolInit
                   ELSE [pc |-> "sleep", msgs |-> <<>>, fcnt |-> b % 65536, base |-> b,
                         ticks |-> 0, frame_bytes |-> <<>>]
          /\ client = [c \in {"c5", "c6"} |->
                          IF c = "c5" THEN NewClient(1)
                          ELSE IF b = 0 THEN NewClient(2)
                          ELSE [channel_id |-> 2, next_id |-> 1 + 2 * b, connected |-> TRUE]]
    /\ InitPair
    /\ InitLib
    /\ uidCtr = 2
    /\ http = <<>>
    /\ ncall = 0
    /\ fwd = FwdInit
    /\ plog = <<>>
    /\ tracker = None
    /\ rpc = "recv"
    /\ cur = NoPkt
    /\ rxi = 0
    /\ nrecv = 0
    /\ chan = <<>>
    /\ dl = DlIdle
    /\ ndl = 0
    /\ log = <<>>

NextPoller ==
    \/ (nrecv < MaxPollerDatagrams /\ RecvFrom(PolDatagrams))
    \/ PullSet
    \/ PullAckSend
    \/ SendDownlinkGet
    \/ SendDownlinkSend
    \/ PolStart
    \/ PolTick
    \/ PolMsg
    \/ PolResult

\* The outbox poller with the downlink sender and the receive loop
SpecPoller == InitPoller /\ [][NextPoller]_vars

\* ------------------------------------------------------------ both tasks
\* poke calls of the forwarder and ticks of the poller while both tasks run
MaxTaskPokes == 1
MaxTaskTicks == 1

NextTasks ==
    \/ (nrecv < MaxPollerDatagrams /\ RecvFrom(PolDatagrams))
    \/ PullSet
    \/ PullAckSend
    \/ SendDownlinkGet
    \/ SendDownlinkSend
    \/ FwdStart
    \/ FwdRecv
    \/ (FwdPokes < MaxTaskPokes /\ FwdPoke)
    \/ FwdReconnect
    \/ PolStart
    \/ (pol.ticks < MaxTaskTicks /\ PolTick)
    \/ PolMsg
    \/ PolResult

\* The forwarder and the poller side by side, each with the client it made,
\* while packets of earlier datagrams wait on the channel
SpecTasks == InitChan /\ [][NextTasks]_vars

\* ------------------------------------------------------------ downlink reports
\* what a gateway sends around a downlink: its PULL_DATA, and TX_ACKs carrying
\* the token of the PULL_RESP, one reporting TOO_LATE and one without body
DlAckDatagrams ==
    { Dg("S1", Hdr(PullData, 42) \o GatewayEui, NoBody),
      Dg("S1", Hdr(TxAck, 4660) \o GatewayEui, TxAckJson(TRUE, <<"TOO_LATE">>)),
      Dg("S1", Hdr(TxAck, 4660) \o GatewayEui, NoBody) }

RecvDlAck == RecvFrom(DlAckDatagrams)

NextDlAck ==
    \/ RecvDlAck
    \/ PullSet
    \/ PullAckSend
    \/ SendDownlinkGet
    \/ SendDownlinkSend
    \/ PolStart
    \/ (pol.ticks < MaxTaskTicks /\ PolTick)
    \/ PolMsg
    \/ PolResult

\* The poller and the downlink sender while the gateway reports on downlinks
SpecDlAck == InitUdp /\ [][NextDlAck]_vars

\* ------------------------------------------------------------ PHY codec in use
\* run_outbound_task builds a frame (main.rs:264-265), handle_packet decodes the
\* bytes of an rxpk (udp/mod.rs:217); the frames and byte sequences tried
DevAddrs == { <<0, 0, 0, 0>>, <<1, 171, 86, 120>>, <<255, 255, 255, 255>> }
Fcnts == {0, 255, 256, 65535}
FPorts == {0, 1, 223, 224}
Payloads == { <<>>, <<72>>, <<0, 255>>, [i \in 1..MaxPhyPayload |-> i % 256] }
Builders ==
    { FrameBuilder(mt, a, c, fp, pl) :
        mt \in DataMTypes \cup {"JoinRequest"}, a \in DevAddrs, c \in Fcnts,
        fp \in FPorts, pl \in Payloads }
Mhdrs == {64, 96, 128, 160, 95, 191, 0, 32, 192, 224}
\* data frames with FOpts: MHDR, DevAddr, FCtrl, FCnt and n more bytes
FOptsPayloads ==
    { <<h, 1, 2, 3, 4, fctrl_byte, 5, 0>> \o [i \in 1..n |-> 16 + i] :
        h \in {64, 160}, fctrl_byte \in {0, 3, 131, 15, 47}, n \in (4..9) \cup (18..21) }
RawPayloads ==
    { <<>> } \cup
    { <<h>> \o [i \in 1..(n - 1) |-> fill] :
        h \in Mhdrs, n \in (1..MaxRawLen) \cup {23}, fill \in {0, 255} } \cup
    FOptsPayloads

PhyRest == <<tracker, rpc, cur, rxi, nrecv, chan, dl, ndl, log, client, uidCtr, http, ncall,
             fwd, pol, plog, gw, glog, mainpc, cwr>>
\* a frame is built
PhyBuild ==
    /\ phy.pc = "idle"
    /\ \E b \in Builders :
          phy' = [pc |-> "built", b |-> b, bytes |-> build(b), out |-> NoDecoded]
    /\ UNCHANGED PhyRest
\* the bytes just built are decoded
PhyDecode ==
    /\ phy.pc = "built"
    /\ phy' = [phy EXCEPT !.pc = "decoded", !.out = decode_phy_payload(phy.bytes)]
    /\ UNCHANGED PhyRest
\* bytes that came in are decoded
PhyDecodeRaw ==
    /\ phy.pc = "idle"
    /\ \E data \in RawPayloads :
          phy' = [pc |-> "decoded", b |-> NoBuilder, bytes |-> data,
                  out |-> decode_phy_payload(data)]
    /\ UNCHANGED PhyRest
\* the result is dropped
PhyDrop ==
    /\ phy.pc = "decoded"
    /\ phy' = PhyIdle
    /\ UNCHANGED PhyRest

NextPhy == PhyBuild \/ PhyDecode \/ PhyDecodeRaw \/ PhyDrop
SpecPhy == InitUdp /\ [][NextPhy]_vars

\* ------------------------------------------------------------ connect with retry
\* AirlockClient::connect_with_retry (airlock.rs:85-107) one await at a time
Min(a, b) == IF a < b THEN a ELSE b
\* the wait that doubles without a cap
backoff_uncapped(attempt) == 2 ^ attempt
\* Duration::from_secs(2u64.pow(attempt.min(5))), in seconds
backoff(attempt) == 2 ^ Min(attempt, 5)

CwrRest == <<tracker, rpc, cur, rxi, nrecv, chan, dl, ndl, log, fwd, pol, plog, gw, glog,
             phy, mainpc>>
\* connect_with_retry(max_retries) is called on a client that is not connected
CwrCall ==
    /\ cwr.pc = "idle"
    /\ ncall < MaxRetryCalls
    /\ ~client["c5"].connected
    /\ \E max_retries \in 0..MaxRetries :
          cwr' = [CwrIdle EXCEPT !.pc = "connect", !.max_retries = max_retries]
    /\ ncall' = ncall + 1
    /\ UNCHANGED <<client, uidCtr, http>>
    /\ UNCHANGED CwrRest
\* self.connect().await and the match on its result, up to the sleep
CwrConnect ==
    /\ cwr.pc = "connect"
    /\ \E lg \in {"ok", "fail"} :
          /\ Took("c5", connect("c5", client["c5"], lg))
          /\ cwr' = IF lg = "ok"
                    THEN [cwr EXCEPT !.pc = "done", !.res = "ok",
                                     !.tried = Append(cwr.tried, lg)]
                    ELSE LET attempt == cwr.attempt + 1
                         IN  [cwr EXCEPT !.attempt = attempt,
                                         !.tried = Append(cwr.tried, lg),
                                         !.pc = IF attempt >= cwr.max_retries
                                                THEN "done" ELSE "sleep",
                                         !.res = IF attempt >= cwr.max_retries
                                                 THEN "err" ELSE ""]
    /\ UNCHANGED ncall
    /\ UNCHANGED CwrRest
\* tokio::time::sleep(backoff).await is over
CwrSleep ==
    /\ cwr.pc = "sleep"
    /\ cwr' = [cwr EXCEPT !.pc = "connect", !.slept = Append(cwr.slept, backoff(cwr.attempt))]
    /\ UNCHANGED <<client, uidCtr, http, ncall>>
    /\ UNCHANGED CwrRest
\* the caller has the result; a connected client is dropped again by disconnect
CwrReturn ==
    /\ cwr.pc = "done"
    /\ Took("c5", disconnect("c5", client["c5"]))
    /\ cwr' = CwrIdle
    /\ UNCHANGED ncall
    /\ UNCHANGED CwrRest

NextRetry == CwrCall \/ CwrConnect \/ CwrSleep \/ CwrReturn
SpecRetry == InitUdp /\ [][NextRetry]_vars
\* every login request is answered and every sleep ends
SpecRetryLive == SpecRetry /\ WF_vars(CwrConnect) /\ WF_vars(CwrSleep)

\* ------------------------------------------------------------ properties
SetMin(S) == CHOOSE x \in S : \A y \in S : x <= y
SetMax(S) == CHOOSE x \in S : \A y \in S : y <= x
IsRx(i, kind) == log[i].e = "rx" /\ log[i].kind = kind
\* events of the receive loop after position i
RecvAfter(i) == {j \in (i + 1)..Len(log) : log[j].by = "recv"}
\* events of the receive loop before position i
RecvBefore(i) == {j \in 1..(i - 1) : log[j].by = "recv"}
\* tracker writes before position i
SetsBefore(i) == {j \in 1..(i - 1) : log[j].e = "set"}

\* C1 as stated: after a PUSH_DATA with token t from S is parsed, the next
\* datagram emitted to S, by the receive loop or by the downlink sender, is
\* the 4-byte PUSH_ACK 0x02, t high, t low, 0x01.
C1_NextDatagramToSourceIsPushAck ==
    \A i \in DOMAIN log :
        IsRx(i, PushData) =>
            LET later == {j \in (i + 1)..Len(log) :
                            log[j].e = "tx" /\ log[j].ok /\ log[j].addr = log[i].addr}
            IN  later # {} =>
                    log[SetMin(later)].bytes =
                        <<2, log[i].token \div 256, log[i].token % 256, 1>>

\* C1 amended: after a PUSH_DATA with token t from S is parsed, the next thing
\* the receive loop does is to send to S the 4-byte PUSH_ACK 0x02, t high,
\* t low, 0x01 (the send may fail, and the downlink sender may emit a
\* PULL_RESP to S before it).
C1_PushAckIsNextSendOfReceiveLoop ==
    \A i \in DOMAIN log :
        IsRx(i, PushData) =>
            IF RecvAfter(i) = {}
            THEN rpc = "push_ack" /\ cur.src = log[i].addr /\ cur.token = log[i].token
            ELSE LET a == log[SetMin(RecvAfter(i))]
                 IN  /\ a.e = "tx"
                     /\ a.addr = log[i].addr
                     /\ Len(a.bytes) = 4
                     /\ a.bytes = <<2, log[i].token \div 256, log[i].token % 256, 1>>

\* C1 witness: a PUSH_DATA with token 0xFF00 was parsed and its PUSH_ACK
\* 02 FF 00 01 left for the source right after
C1_Witness ==
    \E i \in DOMAIN log :
        /\ IsRx(i, PushData)
        /\ log[i].token = 65280
        /\ i < Len(log)
        /\ log[i + 1].e = "tx" /\ log[i + 1].ok
        /\ log[i + 1].addr = log[i].addr
        /\ log[i + 1].bytes = <<2, 255, 0, 1>>

C3_TrackerNewestWins ==
    /\ tracker \in Addrs \cup {None}
    /\ tracker = IF SetsBefore(Len(log) + 1) = {} THEN None
                 ELSE log[SetMax(SetsBefore(Len(log) + 1))].addr
    /\ \A i \in DOMAIN log :
          log[i].e = "set" =>
              /\ RecvBefore(i) # {}
              /\ LET r == log[SetMax(RecvBefore(i))]
                 IN  r.e = "rx" /\ r.kind \in {PullData, PushData} /\ r.addr = log[i].addr
    /\ \A i \in DOMAIN log :
          IsRx(i, PullData) =>
              IF RecvAfter(i) = {}
              THEN rpc = "pull_set" /\ cur.src = log[i].addr
              ELSE LET w == log[SetMin(RecvAfter(i))]
                   IN  w.e = "set" /\ w.addr = log[i].addr

\* C3 witness: a PULL_DATA from S1, then one from S2 overwrote it
C3_Witness ==
    /\ tracker = "S2"
    /\ \E i, j \in DOMAIN log :
          /\ i < j
          /\ log[i].e = "set" /\ log[i].addr = "S1"
          /\ log[j].e = "set" /\ log[j].addr = "S2"

\* C4: a sendDownlink that reads an empty tracker returns the no-gateway error
\* at once and sends nothing; the tracker is empty exactly as long as no
\* PULL_DATA was handled; otherwise the call sends one PULL_RESP to the address
\* the tracker held when the call read it (the last one written before), and
\* returns success exactly when the socket took the datagram.
C4_SendDownlink ==
    \A i \in DOMAIN log :
        log[i].e = "dlget" =>
            /\ log[i].addr = IF SetsBefore(i) = {} THEN None
                             ELSE log[SetMax(SetsBefore(i))].addr
            /\ LET mine == {j \in (i + 1)..Len(log) : log[j].by = "dl"}
               IN  IF log[i].addr = None
                   THEN /\ mine # {}
                        /\ SetMin(mine) = i + 1
                        /\ log[i + 1].e = "dlret" /\ ~log[i + 1].ok
                   ELSE IF mine = {} THEN dl.pc = "send" /\ dl.addr = log[i].addr
                   ELSE LET t == SetMin(mine)
                        IN  /\ log[t].e = "tx"
                            /\ log[t].addr = log[i].addr
                            /\ log[t].kind = PullResp
                            /\ log[t + 1].e = "dlret"
                            /\ log[t + 1].ok = log[t].ok

\* C4 witness: the tracker was rewritten between the read and the send of one
\* call, and the PULL_RESP went to the address read; and a call on the empty
\* tracker is not needed for it
C4_Witness ==
    \E i, j, k \in DOMAIN log :
        /\ i < j /\ j < k
        /\ log[i].e = "dlget" /\ log[i].addr = "S1"
        /\ log[j].e = "set" /\ log[j].addr = "S2"
        /\ log[k].e = "tx" /\ log[k].by = "dl" /\ log[k].ok /\ log[k].addr = "S1"

\* requests that carry an id on a channel
OnChannel(i) == http[i].e \in {"poke", "ack", "delete"}
\* the "ret" that closes the poke call opened at position i
RetOf(i) == SetMin({j \in (i + 1)..Len(http) : http[j].e = "ret"})

\* C7: within one channel uid of a client no two requests carry the same id,
\* ids are positive and increase in the order sent, and the first request on a
\* uid obtained by a rebind carries id 1.
C7_IdsNeverReusedWithinSession ==
    /\ \A i, j \in DOMAIN http :
          ( /\ i < j /\ OnChannel(i) /\ OnChannel(j)
            /\ http[i].cl = http[j].cl /\ http[i].uid = http[j].uid )
          => (0 < http[i].id /\ http[i].id < http[j].id)
    /\ \A j \in DOMAIN http :
          ( /\ OnChannel(j)
            /\ http[j].uid > 2
            /\ \A i \in 1..(j - 1) : OnChannel(i) => http[i].uid # http[j].uid )
          => http[j].id = 1

\* C8: a poke whose PUT is answered 401 or 403 logs in again on a new channel
\* uid and re-sends that poke once; a failed re-login or a failed retry
\* (a second 401 included) ends the call with an error and no further
\* request.  Another non-2xx answer ends the call with an error at once and
\* leaves uid, id counter and connected flag as they were after the id was
\* taken.
C8_RebindOnceOn401 ==
    \A i \in DOMAIN http :
        (http[i].e = "call" /\ http[i].c.connected) =>
            LET pre == http[i].c
                first == http[i + 1]
                j == RetOf(i)
                post == http[j].c
            IN  /\ first.e = "poke" /\ first.uid = pre.channel_id /\ first.id = pre.next_id
                /\ first.resp \in {"401", "403"} =>
                      /\ http[i + 2].e = "login"
                      /\ http[i + 2].uid # pre.channel_id
                      /\ \A k \in 1..i : http[k].uid # http[i + 2].uid
                      /\ post.channel_id = http[i + 2].uid
                      /\ IF http[i + 2].resp # "ok"
                         THEN j = i + 3 /\ http[j].resp = "err"
                         ELSE /\ http[i + 3].e = "poke"
                              /\ http[i + 3].what = http[i].what
                              /\ http[i + 3].uid = http[i + 2].uid
                              /\ j = i + 4
                              /\ http[j].resp = (IF http[i + 3].resp = "2xx" THEN "ok" ELSE "err")
                /\ first.resp = "500" =>
                      /\ j = i + 2
                      /\ http[j].resp = "err"
                      /\ post = [pre EXCEPT !.next_id = pre.next_id + 1]

\* C8 witness: a poke answered 403, a successful re-login, the retry answered
\* 401, and the call returned the error
C8_Witness ==
    \E i \in DOMAIN http :
        /\ http[i].e = "call"
        /\ i + 4 <= Len(http)
        /\ http[i + 1].e = "poke" /\ http[i + 1].resp = "403"
        /\ http[i + 2].e = "login" /\ http[i + 2].resp = "ok"
        /\ http[i + 3].e = "poke" /\ http[i + 3].resp = "401"
        /\ http[i + 4].e = "ret" /\ http[i + 4].resp = "err"

\* the packets the receive loop put on the channel, in the order of the sends
Enqueued == SelectSeq(log, LAMBDA e : e.e = "enq")
\* the poke calls of the forwarder's client, in order
FwdCalls == SelectSeq(http, LAMBDA h : h.cl = "c5" /\ h.e = "call")
\* the packet the forwarder holds, as a sequence
InHand == IF fwd.pc = "poke" THEN <<fwd.pkt>> ELSE <<>>
\* PUTs of json that the host did not refuse (answered 2xx, or the answer lost)
Accepted(json) ==
    {i \in DOMAIN http : /\ http[i].e = "poke" /\ http[i].what = json
                         /\ http[i].resp \in {"2xx", "neterr"}}

\* C9: every packet the forwarder dequeued is handed to poke once and no more:
\* after its poke call (failed or not) it is neither on the channel nor in the
\* forwarder's hands, the forwarder keeps running, and the host accepts the
\* uplink at most once.
C9_AtMostOnceUplink ==
    /\ \A i, j \in DOMAIN FwdCalls : i # j => FwdCalls[i].what # FwdCalls[j].what
    /\ \A i \in DOMAIN FwdCalls :
          /\ \A k \in DOMAIN chan : Uplink(chan[k]) # FwdCalls[i].what
          /\ \A k \in DOMAIN InHand :
                Uplink(InHand[k]) = FwdCalls[i].what => i = Len(FwdCalls)
          /\ Cardinality(Accepted(FwdCalls[i].what)) <= 1
    /\ Len(FwdCalls) + Len(InHand) + Len(chan) = Len(Enqueued)
    /\ FwdCalls # <<>> => fwd.pc # "exit"

\* C9 witness: a poke failed (rebind and retry included) and the forwarder
\* went on to poke the next packet
C9_Witness ==
    \E i, j \in DOMAIN http :
        /\ i < j
        /\ http[i].cl = "c5" /\ http[i].e = "ret" /\ http[i].resp = "err"
        /\ \E k \in 1..(i - 1) : http[k].e = "poke" /\ http[k].resp = "401"
                                 /\ http[k].what = http[i].what
        /\ http[j].cl = "c5" /\ http[j].e = "call" /\ http[j].what # http[i].what

\* C10: the packets are poked in the order their rxpk entries were put on the
\* channel, which is datagram arrival order and array order inside a
\* datagram; a poke call is over before the next one starts.
C10_UplinksPokedInArrivalOrder ==
    /\ [i \in DOMAIN FwdCalls |-> FwdCalls[i].what] \o
         [i \in DOMAIN InHand |-> Uplink(InHand[i])] \o
         [i \in DOMAIN chan |-> Uplink(chan[i])]
       = [i \in DOMAIN Enqueued |-> Uplink(LoRaPacket(Enqueued[i].bytes[1], Enqueued[i].bytes[2]))]
    /\ \A i, j \in DOMAIN Enqueued :
          i < j => \/ Enqueued[i].bytes[1] < Enqueued[j].bytes[1]
                   \/ /\ Enqueued[i].bytes[1] = Enqueued[j].bytes[1]
                      /\ Enqueued[i].bytes[2] < Enqueued[j].bytes[2]
    /\ \A i \in DOMAIN http :
          (http[i].cl = "c5" /\ http[i].e = "call") =>
              \E j \in (i + 1)..Len(http) :
                  /\ http[j].e = "ret" /\ http[j].what = http[i].what
                  /\ \A k \in (i + 1)..(j - 1) : http[k].e \notin {"call", "ret"}

\* C10 witness: two packets were waiting on the channel together and both have
\* been poked, the second of one datagram before the first of the next
C10_Witness ==
    /\ Len(FwdCalls) >= 3
    /\ FwdCalls[2].what.a # FwdCalls[3].what.a
    /\ FwdCalls[1].what.a = FwdCalls[2].what.a

\* the history entries that belong to the message whose handling starts at i
SegEnd(i) ==
    IF \E k \in (i + 1)..Len(plog) : plog[k].e = "msg"
    THEN SetMin({k \in (i + 1)..Len(plog) : plog[k].e = "msg"}) - 1
    ELSE Len(plog)
\* the handling that started at i is over
Handled(i) == SegEnd(i) < Len(plog) \/ pol.pc # "wait"
\* the frames the poller built, in order
Frames == SelectSeq(plog, LAMBDA p : p.e = "frame")

\* C5: for each outbox message handled in a tick the poller calls poke for one
\* result and one only: tx-ack with the message id if send_downlink returned
\* Ok, tx-fail with the message id after a malformed address, a malformed
\* payload, the no-gateway error or a socket error.
C5_OneResultPokePerMessage ==
    /\ \A i \in DOMAIN plog :
          plog[i].e = "msg" =>
              LET seg == (i + 1)..SegEnd(i)
                  pokes == {k \in seg : plog[k].e = "poke"}
                  sentOk == \E k \in seg : plog[k].e = "dl" /\ plog[k].s = "ok"
                  failed == \E k \in seg :
                                \/ plog[k].e \in {"badaddr", "badhex"}
                                \/ plog[k].e = "dl" /\ plog[k].s \in {"no_gateway", "socket"}
              IN  IF Handled(i)
                  THEN /\ Cardinality(pokes) = 1
                       /\ plog[SegEnd(i)].e = "poke"
                       /\ plog[SegEnd(i)].id = plog[i].id
                       /\ plog[SegEnd(i)].s = (IF sentOk THEN "tx-ack" ELSE "tx-fail")
                       /\ sentOk # failed
                  ELSE pokes = {}
    /\ LET calls == SelectSeq(http, LAMBDA h : h.cl = "c6" /\ h.e = "call")
           pokes == SelectSeq(plog, LAMBDA p : p.e = "poke")
           rets == SelectSeq(log, LAMBDA e : e.e = "dlret")
           seen == SelectSeq(plog, LAMBDA p : p.e = "dl")
       IN  /\ [k \in DOMAIN calls |-> calls[k].what]
              = [k \in DOMAIN pokes |-> IF pokes[k].s = "tx-ack"
                                        THEN TxAckSuccess(pokes[k].id)
                                        ELSE TxAckFailure(pokes[k].id)]
           /\ [k \in DOMAIN rets |-> rets[k].ok]
              = [k \in DOMAIN seen |-> seen[k].s = "ok"]
                  \o (IF pol.pc = "wait" /\ dl.pc = "done" THEN <<dl.res = "ok">> ELSE <<>>)

\* C5 witness: one tick whose messages met a malformed address, a malformed
\* payload and a refused downlink, and another message that was sent and
\* acknowledged
C5_Witness ==
    /\ \E k \in DOMAIN plog : plog[k].e = "badaddr"
    /\ \E k \in DOMAIN plog : plog[k].e = "badhex"
    /\ \E k \in DOMAIN plog : plog[k].e = "dl" /\ plog[k].s = "socket"
    /\ \E k \in DOMAIN plog : plog[k].e = "poke" /\ plog[k].s = "tx-ack"
    /\ pol.pc = "sleep"

\* C6: fcnt is 0 at the start of the poller, and the i-th frame built since
\* then carries fcnt (i - 1) mod 2^16: consecutive dispatched downlinks differ
\* by one, 65535 is followed by 0, and every frame built is handed to
\* send_downlink.
C6_FcntStepsByOneMod65536 ==
    /\ pol.fcnt \in 0..65535
    /\ pol.pc = "start" => pol.fcnt = 0 /\ pol.base = 0
    /\ pol.fcnt = (pol.base + Len(Frames)) % 65536
    /\ \A i \in DOMAIN Frames : Frames[i].n = (pol.base + i - 1) % 65536
    /\ \A i \in 1..(Len(Frames) - 1) :
          /\ Frames[i + 1].n # Frames[i].n
          /\ Frames[i + 1].n = (IF Frames[i].n = 65535 THEN 0 ELSE Frames[i].n + 1)
    /\ \A k \in DOMAIN plog :
          plog[k].e = "frame" =>
              IF k = Len(plog) THEN pol.pc = "wait" ELSE plog[k + 1].e = "dl"

\* C6 witness: a frame with fcnt 65535 and the next one with fcnt 0, both
\* handed to send_downlink
C6_Witness ==
    /\ \E i \in 1..(Len(Frames) - 1) : Frames[i].n = 65535 /\ Frames[i + 1].n = 0
    /\ pol.pc = "sleep"

\* the receive loop is at a Data rxpk entry and the forwarder has not exited
AtDataRxpk == rpc = "rxpk" /\ cur.body.rxpk[rxi + 1] = "data" /\ fwd.pc # "exit"
\* the receive loop waits in tx.send on a full channel
SendBlocked == AtDataRxpk /\ Len(chan) = ChannelCapacity

\* C11: the channel never holds more than 256 packets; while a Data entry
\* meets a full channel the receive loop stays where it is (no datagram read,
\* no entry skipped) and only the forwarder's dequeue changes the channel; and
\* whenever the receive loop leaves a Data entry with the forwarder alive, the
\* packet has been appended to the channel.
C11_BackPressure ==
    /\ [](Len(chan) <= ChannelCapacity)
    /\ [][ /\ SendBlocked =>
               /\ rpc' = rpc /\ cur' = cur /\ rxi' = rxi /\ nrecv' = nrecv
               /\ chan' = chan \/ chan' = Tail(chan)
           /\ (AtDataRxpk /\ (rxi' # rxi \/ rpc' # rpc)) =>
               chan' = Append(chan, LoRaPacket(cur.n, rxi + 1)) ]_vars

\* C11 witness: the forwarder has taken a packet off the full channel, the
\* place was filled again, and the receive loop waits with the next Data entry
C11_Witness == SendBlocked /\ fwd.pc = "poke" /\ chan[Len(chan)].dg = 2

\* the places where the receive loop of start_server can be
ReceiveLoopPcs == {"recv", "push_ack", "push_body", "rxpk", "pull_set", "pull_ack"}
\* the step drops what recv_from returned
Drops == Len(log') = Len(log) + 1 /\ log'[Len(log')].e \in DropReasons

GKind(i) == IF Len(glog[i].hdr) >= 4 THEN glog[i].hdr[4] ELSE 255
\* the PUSH_DATA datagrams sent while datagram number n was handled
RelaysOf(n) == {k \in DOMAIN glog : glog[k].e = "tx" /\ glog[k].n = n /\ GKind(k) = PushData}
\* the TX_ACK datagrams sent while datagram number n was handled
TxAcksOf(n) == {k \in DOMAIN glog : glog[k].e = "tx" /\ glog[k].n = n /\ GKind(k) = TxAck}
\* the loop that read datagram i has finished with it
GwDone(i) == gw.loop[glog[i].sock].pkt.n # glog[i].n
\* the datagrams whose token came from the shared counter
Generated == {k \in DOMAIN glog : glog[k].e = "tx" /\ GKind(k) \in {PushData, PullData}}
\* the configured id and default upstream of a side
ConfiguredEui(side) == IF side = "A" THEN <<170, 0, 0, 0, 0, 0, 0, 1>> ELSE <<187, 0, 0, 0, 0, 0, 0, 2>>
ConfiguredBridge(side) == IF side = "A" THEN "BrA" ELSE "BrB"
\* the upstream address side has learned before position k, or its default
TrackedBefore(side, k) ==
    LET sets == {j \in 1..(k - 1) : glog[j].e = "set" /\ glog[j].sock = side}
    IN  IF sets = {} THEN ConfiguredBridge(side) ELSE glog[SetMax(sets)].peer
\* the relay k of datagram i left the peer's socket for the address the peer's
\* tracker held (or its default) when the loop read it
RelayedToPeerUpstream(i, k) ==
    LET b == Peer(glog[i].sock)
    IN  /\ i < k
        /\ glog[k].sock = b
        /\ \E r \in (i + 1)..(k - 1) :
              /\ glog[r].e = "read" /\ glog[r].n = glog[i].n /\ glog[r].sock = b
              /\ glog[r].peer = TrackedBefore(b, r)
              /\ glog[k].peer = glog[r].peer

\* C13: every PUSH_DATA of at least 12 bytes read on one side's socket is
\* relayed by exactly one PUSH_DATA sent from the other side's socket, with the
\* other side's configured gateway id, a token of the shared counter that no
\* other generated datagram carries, the body byte for byte, to the other
\* side's tracked upstream or, while none is tracked, to its configured default.
C13_PairRelaysPushData ==
    \A i \in DOMAIN glog :
        (glog[i].e = "rx" /\ GKind(i) = PushData /\ Len(glog[i].hdr) + Len(glog[i].raw) >= 12) =>
            LET rel == RelaysOf(glog[i].n)
            IN  /\ Cardinality(rel) <= 1
                /\ GwDone(i) => Cardinality(rel) = 1
                /\ \A k \in rel :
                      /\ RelayedToPeerUpstream(i, k)
                      /\ SubSeq(glog[k].hdr, 1, 1) = <<2>>
                      /\ SubSeq(glog[k].hdr, 5, 12) = ConfiguredEui(Peer(glog[i].sock))
                      /\ Len(glog[k].hdr) = 12
                      /\ glog[k].raw = glog[i].raw /\ glog[k].rxpk = <<>>
                      /\ GetU16(glog[k].hdr, 2) \in 4096..(gw.token_counter - 1)
                      /\ \A m \in Generated \ {k} :
                            GetU16(glog[m].hdr, 2) # GetU16(glog[k].hdr, 2)

\* C13 witness: side B learned its upstream X from a PULL_DATA, and a
\* PUSH_DATA read on A was relayed from B's socket to X
C13_Witness ==
    \E i, k \in DOMAIN glog :
        /\ glog[i].e = "rx" /\ glog[i].sock = "A" /\ GKind(i) = PushData
        /\ k \in RelaysOf(glog[i].n)
        /\ glog[k].sock = "B" /\ glog[k].peer = "X" /\ glog[k].raw = <<123, 125>>
        /\ GwDone(i)

\* the members txpk_to_rxpk is to carry over
CopiedFields == {"freq", "datr", "codr", "size", "data"}

\* C14: a PULL_RESP with a txpk read on one side is relayed by exactly one
\* PUSH_DATA from the other side's socket to the other side's upstream whose
\* body is {rxpk:[r]} with freq, datr, codr, size and data as in the txpk,
\* modu "LORA", rssi -60, lsnr 8.0, tmst 0 and nothing else, and is answered
\* by one TX_ACK without body (success) carrying the PULL_RESP's token and
\* this side's gateway id, sent to the PULL_RESP's source.
C14_PairRelaysDownlinkAsUplink ==
    \A i \in DOMAIN glog :
        ( /\ glog[i].e = "rx" /\ GKind(i) = PullResp
          /\ glog[i].js.parse /\ glog[i].js.has_txpk /\ GwDone(i) ) =>
            LET rel == RelaysOf(glog[i].n)
                acks == TxAcksOf(glog[i].n)
            IN  /\ Cardinality(rel) = 1
                /\ \A k \in rel :
                      /\ RelayedToPeerUpstream(i, k)
                      /\ Len(glog[k].rxpk) = 1
                      /\ LET r == glog[k].rxpk[1]
                         IN  /\ DOMAIN r = CopiedFields \cup {"modu", "rssi", "lsnr", "tmst"}
                             /\ \A f \in CopiedFields :
                                   glog[i].js.txpk[f].t # "missing" => r[f] = glog[i].js.txpk[f]
                             /\ r["modu"] = JStr("LORA") /\ r["rssi"] = JNum(-60)
                             /\ r["lsnr"] = JFloat(80) /\ r["tmst"] = JNum(0)
                /\ Cardinality(acks) = 1
                /\ \A k \in acks :
                      /\ glog[k].sock = glog[i].sock /\ glog[k].peer = glog[i].peer
                      /\ glog[k].hdr = <<2>> \o SubSeq(glog[i].hdr, 2, 3) \o <<TxAck>>
                                          \o ConfiguredEui(glog[i].sock)
                      /\ glog[k].raw = <<>> /\ glog[k].rxpk = <<>>
                      /\ \A m \in rel : m < k

\* C15: a data frame built with a data message type, fPort in 1..223 and a
\* non-empty payload of at most 242 bytes decodes to a Data frame with the same
\* mtype, devAddr, fcnt, fPort and payload, empty fOpts, all fctrl flags clear
\* and mic 0.
C15_PhyRoundTrip ==
    ( /\ phy.pc = "decoded" /\ phy.b # NoBuilder
      /\ phy.b.mtype \in DataMTypes /\ phy.b.f_port \in 1..223
      /\ phy.b.payload # <<>> /\ Len(phy.b.payload) <= 242 ) =>
        /\ phy.out.ok /\ phy.out.kind = "Data"
        /\ phy.out.mtype = phy.b.mtype
        /\ phy.out.dev_addr = phy.b.dev_addr
        /\ phy.out.fcnt = phy.b.fcnt
        /\ phy.out.f_port = <<phy.b.f_port>>
        /\ phy.out.frm_payload = phy.b.payload
        /\ phy.out.f_opts = <<>>
        /\ phy.out.fctrl = FCtrl(0)
        /\ phy.out.mic = <<0, 0, 0, 0>>
C15_Witness ==
    /\ phy.pc = "decoded" /\ phy.out.ok
    /\ phy.b.mtype = "ConfirmedDataUp" /\ phy.b.dev_addr = <<1, 171, 86, 120>>
    /\ phy.b.fcnt = 256 /\ phy.b.f_port = 223 /\ Len(phy.b.payload) = 242

\* C16: the decoder rejects every non-empty byte sequence shorter than 12
\* bytes whose MHDR selects a data type with the too-short error, and rejects
\* the empty sequence; no frame is produced.
C16_ShortDataFrameRejected ==
    ( /\ phy.pc = "decoded" /\ Len(phy.bytes) < 12
      /\ (phy.bytes # <<>> => MType_try_from(phy.bytes[1]) \in DataMTypes) ) =>
        /\ ~phy.out.ok /\ phy.out.kind = "none"
        /\ phy.out = IF phy.bytes = <<>> THEN DecodeErr("empty") ELSE DecodeErr("too_short")
C16_Witness ==
    /\ phy.pc = "decoded" /\ Len(phy.bytes) = 11 /\ phy.bytes[1] = 191
    /\ phy.out = DecodeErr("too_short")

\* the attempts connect_with_retry(n) may make: one even when n is 0
AttemptsAllowed(n) == IF n = 0 THEN 1 ELSE n
\* what holds of a call whatever the bound on its attempts
RetryShape ==
    /\ \A k \in DOMAIN cwr.slept : cwr.slept[k] = 2 ^ Min(k, 5)
    /\ \A k \in 1..(Len(cwr.tried) - 1) : cwr.tried[k] = "fail"
    /\ cwr.pc = "connect" => Len(cwr.slept) = Len(cwr.tried)
    /\ cwr.pc \in {"sleep", "done"} => Len(cwr.slept) = Len(cwr.tried) - 1
    /\ cwr.pc = "done" =>
          /\ cwr.res = "ok" <=> cwr.tried[Len(cwr.tried)] = "ok"
          /\ cwr.res = "ok" <=> client["c5"].connected
          /\ cwr.res \in {"ok", "err"}

LastReport == log'[Len(log')]
\* C18: handling a TX_ACK leaves the tracker, the uplink channel, the receive
\* loop and the downlink call as they are and sends nothing; it reports
\* success when the body is absent or its txpk_ack has no error string or the
\* error "NONE", and a failure for any other error string.
C18_TxAckOnlyReports ==
    [][ \A d \in TxAckDatagrams :
          (rpc = "recv" /\ nrecv < MaxDatagrams /\ Received(d)) =>
             /\ UNCHANGED <<tracker, chan, rpc, cur, rxi, dl, ndl>>
             /\ \A i \in (Len(log) + 1)..Len(log') : log'[i].e \in {"rx", "report"}
             /\ (d.body.t = "empty" \/ (d.body.ack.txpk_ack /\ d.body.ack.error \in {<<>>, <<"NONE">>}))
                   => (LastReport.e = "report" /\ LastReport.ok /\ LastReport.token = GetU16(d.hdr, 2))
             /\ (d.body.ack.txpk_ack /\ d.body.ack.error \notin {<<>>, <<"NONE">>})
                   => (LastReport.e = "report" /\ ~LastReport.ok /\ LastReport.token = GetU16(d.hdr, 2))
      ]_vars
C18_Witness ==
    /\ tracker = "S1" /\ rpc = "recv" /\ Len(log) > 2
    /\ log[Len(log)].e = "report" /\ ~log[Len(log)].ok /\ log[Len(log)].token = 44

\* C19: once main has returned after the interrupt signal, no LoRaPacket is
\* left on the channel or in the forwarder's hands without its poke, and the
\* forwarder's client, if it had logged in, has been disconnected by a delete
\* request.
C19_OrderlyShutdown ==
    mainpc = "returned" =>
        /\ chan = <<>> /\ fwd.pkt = None
        /\ ~client["c5"].connected
        /\ (\E i \in DOMAIN http : http[i].cl = "c5" /\ http[i].e = "login" /\ http[i].resp = "ok")
              => http[Len(http)].e = "delete"

\* C20: a PULL_DATA with token t from S is followed, in the receive loop, by
\* the tracker write of S and then by one datagram to S, the 4 bytes 0x02,
\* t high, t low, 0x04; a send_downlink that reads the tracker after that
\* datagram finds an address, and finds S unless a later write replaced it.
C20_PullAckAfterTrackerWrite ==
    \A i \in DOMAIN log :
        IsRx(i, PullData) =>
            IF RecvAfter(i) = {} THEN rpc = "pull_set" /\ cur.src = log[i].addr
            ELSE LET w == SetMin(RecvAfter(i))
                 IN  /\ log[w].e = "set" /\ log[w].addr = log[i].addr
                     /\ IF RecvAfter(w) = {}
                        THEN rpc = "pull_ack" /\ cur.src = log[i].addr /\ tracker # None
                        ELSE LET a == SetMin(RecvAfter(w))
                             IN  /\ log[a].e = "tx" /\ log[a].addr = log[i].addr
                                 /\ log[a].bytes = <<2, log[i].token \div 256,
                                                     log[i].token % 256, 4>>
                                 /\ \A m \in (a + 1)..Len(log) :
                                       log[m].e = "dlget" =>
                                          /\ log[m].addr # None
                                          /\ (\A x \in (a + 1)..(m - 1) : log[x].e # "set")
                                                => log[m].addr = log[i].addr
C20_Witness ==
    \E i, a, m \in DOMAIN log :
        /\ i < a /\ a < m
        /\ IsRx(i, PullData) /\ log[i].addr = "S2" /\ log[i].token = 65280
        /\ log[a].e = "tx" /\ log[a].bytes = <<2, 255, 0, 4>> /\ log[a].addr = "S2"
        /\ log[m].e = "dlget" /\ log[m].addr = "S2"

\* PUSH_DATA datagrams parsed and PUSH_ACKs handed to the socket, as positions
\* of the log
PushRxIdx == {j \in DOMAIN log : IsRx(j, PushData)}
PushAckIdx == {j \in DOMAIN log : log[j].e = "tx" /\ log[j].by = "recv" /\ log[j].kind = PushAck}
EnqIdx == {j \in DOMAIN log : log[j].e = "enq"}
\* how many positions of S lie at or before j
Rank(j, S) == Cardinality({x \in S : x <= j})
\* the PUSH_ACK of the datagram in hand has been handed to the socket
CurAcked ==
    /\ PushRxIdx # {}
    /\ \E a \in PushAckIdx :
          /\ a > SetMax(PushRxIdx)
          /\ log[a].addr = cur.src
          /\ log[a].bytes = <<2, cur.token \div 256, cur.token % 256, 1>>
          /\ \A e \in EnqIdx : log[e].bytes[1] = cur.n => a < e

\* C21: while a PUSH_DATA is handled its PUSH_ACK goes out before the body is
\* parsed and before any of its rxpk entries is decoded or enqueued, so a
\* receive loop waiting on the full channel has sent the ACK of the datagram
\* in hand; and the k-th PUSH_ACK answers the k-th PUSH_DATA parsed, each
\* before the next datagram is read.
C21_AckBeforeDownstreamWork ==
    /\ rpc \in {"push_body", "rxpk"} => CurAcked
    /\ rpc = "push_ack" => \A e \in EnqIdx : log[e].bytes[1] # cur.n
    /\ \A e \in EnqIdx :
          \E a \in PushAckIdx : a < e /\ \A i \in PushRxIdx : i < e => i < a
    /\ \A a \in PushAckIdx :
          \E i \in PushRxIdx :
             /\ Rank(i, PushRxIdx) = Rank(a, PushAckIdx)
             /\ i < a
             /\ log[a].addr = log[i].addr /\ log[a].token = log[i].token
             /\ \A i2 \in PushRxIdx : i2 > i => i2 > a
    /\ Cardinality(PushAckIdx) =
          Cardinality(PushRxIdx) - (IF rpc = "push_ack" THEN 1 ELSE 0)
C21_Witness ==
    /\ SendBlocked /\ cur.n = 2 /\ rxi = 0
    /\ CurAcked
    /\ Cardinality(PushAckIdx) = 2

\* C22: every poke call that returns Ok has, as its last request, one ack
\* {action:"ack", event-id:0} on the channel uid of the PUT that succeeded,
\* carrying the id that follows that PUT's id.
C22_AckAfterEverySuccessfulPoke ==
    \A j \in DOMAIN http :
        (http[j].e = "ret" /\ http[j].resp = "ok") =>
            /\ http[j - 1].e = "ack"
            /\ http[j - 2].e = "poke" /\ http[j - 2].resp = "2xx"
            /\ http[j - 1].uid = http[j - 2].uid
            /\ http[j - 1].id = http[j - 2].id + 1
            /\ \A k \in 1..(j - 2) : http[k].e = "ack" => RetOf(k) < j

\* the ids of the messages the poller took in hand, in the order taken
MsgIds == LET ms == SelectSeq(plog, LAMBDA p : p.e = "msg")
          IN  [k \in DOMAIN ms |-> ms[k].id]
\* the ids of an outbox array, in array order
OutboxIds(o) == [k \in DOMAIN o.msgs |-> o.msgs[k].id]
\* ids is made of whole outbox arrays, each in array order, followed by the
\* part of the array of the tick in progress whose remainder is rest
RECURSIVE InArrayOrder(_, _)
InArrayOrder(ids, rest) ==
    \/ ids = <<>> /\ rest = <<>>
    \/ \E o \in Outboxes :
          LET a == OutboxIds(o)
          IN  /\ a # <<>>
              /\ \/ /\ Len(ids) >= Len(a)
                    /\ SubSeq(ids, 1, Len(a)) = a
                    /\ InArrayOrder(SubSeq(ids, Len(a) + 1, Len(ids)), rest)
                 \/ /\ Len(ids) < Len(a)
                    /\ ids = SubSeq(a, 1, Len(ids))
                    /\ rest = SubSeq(a, Len(ids) + 1, Len(a))
\* the messages of the tick in progress that are not yet dealt with
Pending == IF pol.pc = "wait" THEN Tail(pol.msgs) ELSE pol.msgs

\* C23: within a tick the messages are taken in array order; the downlink
\* send and the result poke of a message are over before the next message is
\* taken and before the next frame is built; the frames carry fcnt in that
\* order and the result pokes leave in that order.
C23_OutboxHandledInArrayOrder ==
    /\ InArrayOrder(MsgIds, [k \in DOMAIN Pending |-> Pending[k].id])
    /\ \A k \in DOMAIN plog :
          plog[k].e = "frame" =>
              /\ plog[k - 1].e = "msg" /\ plog[k - 1].id = plog[k].id
              /\ \A j \in 1..(k - 1) :
                    plog[j].e = "frame" =>
                        /\ plog[j + 1].e = "dl" /\ plog[j + 2].e = "poke"
                        /\ plog[j + 2].id = plog[j].id
                        /\ j + 2 < k - 1
                        /\ plog[k].n = (plog[j].n + Cardinality({x \in (j + 1)..k : plog[x].e = "frame"})) % 65536
    /\ \A k \in DOMAIN plog :
          (plog[k].e = "msg" /\ k > 1) => plog[k - 1].e = "poke"
    /\ LET calls == SelectSeq(http, LAMBDA h : h.cl = "c6" /\ h.e = "call")
           rets == SelectSeq(http, LAMBDA h : h.cl = "c6" /\ h.e = "ret")
           sends == SelectSeq(log, LAMBDA e : e.e = "dlret")
           done == Len(MsgIds) - (IF pol.pc = "wait" THEN 1 ELSE 0)
       IN  /\ Len(calls) = done /\ Len(rets) = done
           /\ \A k \in DOMAIN calls : calls[k].what.a = MsgIds[k]
           /\ Len(sends) = Len(Frames) - (IF pol.pc = "wait" /\ dl.pc # "done" THEN 1 ELSE 0)
\* C23 witness: a tick with two frames built, the second after the first
\* message's result poke, and a tick whose three messages were all refused
C23_Witness ==
    /\ pol.pc = "sleep"
    /\ MsgIds = <<7, 8, 9, 10, 11>>
    /\ Len(Frames) = 2 /\ Frames[1].id = 7 /\ Frames[2].id = 8
    /\ Frames[2].n = Frames[1].n + 1

\* the rxpk array of the PUSH_DATA of SpecRxpk that carries the token t, as
\* serde_json yields it (empty when the body is no PushDataPayload)
RxpkOf(t) ==
    LET d == CHOOSE x \in RxpkDatagrams : GetU16(x.hdr, 2) = t
    IN  IF d.body.t = "json" THEN d.body.rxpk ELSE <<>>
\* the receive loop's events after the PUSH_DATA parsed at i, up to the next
\* datagram
After(i) == {j \in (i + 1)..Len(log) : \A k \in (i + 1)..j : log[k].e \notin {"rx", "drop"}}

\* C24: for every PUSH_DATA handled to its end, the PUSH_ACK was handed to the
\* socket (also when the body is no JSON payload), and the packets enqueued
\* are, in array order, one per rxpk entry that decodes to a data frame;
\* entries failing base64, failing the LoRaWAN decode or decoding to another
\* frame type enqueue nothing and stop nothing.
C24_BadRxpkSkippedOthersEnqueued ==
    \A i \in PushRxIdx :
        LET rx == RxpkOf(log[i].token)
            over == (i < SetMax(PushRxIdx)) \/ rpc = "recv"
            upto == IF over THEN Len(rx) ELSE IF rpc = "rxpk" THEN rxi ELSE 0
            enq == {j \in After(i) : log[j].e = "enq"}
            ixs == {k \in 1..upto : rx[k] = "data"}
        IN  /\ (over \/ rpc # "push_ack") =>
                  /\ i + 1 \in PushAckIdx
                  /\ log[i + 1].token = log[i].token /\ log[i + 1].addr = log[i].addr
            /\ {log[j].bytes[2] : j \in enq} = ixs
            /\ Cardinality(enq) = Cardinality(ixs)
            /\ \A j1, j2 \in enq : j1 < j2 => log[j1].bytes[2] < log[j2].bytes[2]
            /\ \A j \in enq : \E c \in DOMAIN chan : chan[c] = LoRaPacket(log[j].bytes[1], log[j].bytes[2])
C24_Witness ==
    /\ rpc = "recv" /\ nrecv = 2
    /\ \E i \in PushRxIdx : log[i].token = 43 /\ log[i + 1].e = "tx" /\ log[i + 1].kind = PushAck
    /\ \E i \in PushRxIdx :
          /\ log[i].token = 42
          /\ {log[j].bytes[2] : j \in {x \in After(i) : log[x].e = "enq"}} = {2, 5}
    /\ Len(chan) = 2

\* the receive loop takes the datagram d from recv_from
Takes(d) == rpc = "recv" /\ nrecv < MaxDatagrams /\ Received(d)
\* the step that takes d leaves everything but the log as it was and sends
\* nothing
Ignored(d) ==
    /\ tracker' = tracker /\ chan' = chan /\ rpc' = "recv" /\ cur' = cur
    /\ Len(log') = Len(log) + 1
    /\ log'[Len(log')].e # "tx"

Defects(d) ==
    LET len == Len(d.hdr) + BodyLen(d.body)
        typed == Len(d.hdr) >= 4
    IN  (IF len < 4 THEN {"too_short"} ELSE {})
        \cup (IF Len(d.hdr) >= 1 /\ d.hdr[1] # 2 THEN {"version"} ELSE {})
        \cup (IF typed /\ d.hdr[4] \notin 0..5 THEN {"unknown_kind"} ELSE {})
        \cup (IF typed /\ d.hdr[4] \in {PushData, PullData, TxAck} /\ len - 4 < 8
              THEN {"short_eui"} ELSE {})
        \cup (IF typed /\ d.hdr[4] \in {PushData, TxAck} /\ d.body.t = "badutf8"
              THEN {"utf8"} ELSE {})
\* the datagrams of SpecRecv that are of a kind a gateway sends, or of no kind
FromGateway ==
    {d \in Datagrams \cup BadDatagrams :
        ~(Len(d.hdr) >= 4 /\ d.hdr[1] = 2 /\ d.hdr[4] \in {PushAck, PullAck, PullResp})}

\* C26: the parser rejects a datagram shorter than 4 bytes, one whose first
\* byte is not 0x02, one whose kind byte is outside 0..5, a PUSH_DATA,
\* PULL_DATA or TX_ACK with fewer than 8 bytes after the header, and a
\* non-UTF-8 JSON body, each with the reason of a defect the datagram has (a
\* datagram with one defect gets that defect's reason); a datagram without
\* defect is accepted and its token is bytes 1-2 read big-endian.
C26_ParserRejectsWithReasons ==
    [][\A d \in FromGateway :
          Takes(d) =>
              LET ev == log'[Len(log) + 1]
              IN  IF Defects(d) = {}
                  THEN /\ ev.e = "rx" /\ ev.kind = d.hdr[4]
                       /\ ev.token = d.hdr[2] * 256 + d.hdr[3]
                  ELSE ev.e \in Defects(d)]_vars
\* C26 witness: a TX_ACK cut short and a datagram with another version byte
\* were rejected, each for its reason
C26_Witness ==
    /\ Len(log) = 2
    /\ log[1].e = "short_eui" /\ log[2].e = "version"

\* the datagram read at position i of the pair's history is malformed or of
\* unknown kind
GwMalformed(i) ==
    LET len == Len(glog[i].hdr) + Len(glog[i].raw)
    IN  \/ len < 4
        \/ glog[i].hdr[1] # 2
        \/ GKind(i) \in {PushData, PullData} /\ len < 12
        \/ GKind(i) \notin 0..5

\* C27: in pair mode a datagram that is shorter than 4 bytes, carries a
\* version byte other than 0x02, is a PUSH_DATA or PULL_DATA shorter than 12
\* bytes, or is of unknown kind, is dropped: the history holds nothing for it
\* but its receipt (no ACK, no relay, no tracker write) and the loop that read
\* it is back at recv_from.
C27_PairDropsMalformed ==
    \A i \in DOMAIN glog :
        (glog[i].e = "rx" /\ GwMalformed(i)) =>
            /\ \A k \in DOMAIN glog : glog[k].n = glog[i].n => k = i
            /\ GwDone(i)
            /\ gw.loop[glog[i].sock].pc = "recv"

\* the requests and calls appended to the clients' history by the step
NewHttp == SubSeq(http', Len(http) + 1, Len(http'))
\* the channel uids the client cl has used or holds
UidsOf(cl) == {client[cl].channel_id} \cup {http[i].uid : i \in {j \in DOMAIN http : http[j].cl = cl}}

\* C28: the forwarder and the poller each work on their own client: a step of
\* one task (login, poke, scry, failure or rebind) leaves the other task's
\* channel uid, id counter and connected flag as they were and sends requests
\* only in its own client's name; the two clients never use the same channel
\* uid.
C28_TasksKeepSeparateSessions ==
    /\ [][ /\ (fwd' # fwd \/ client'["c5"] # client["c5"]) =>
                /\ client'["c6"] = client["c6"] /\ pol' = pol
                /\ \A k \in DOMAIN NewHttp : NewHttp[k].cl = "c5"
           /\ (pol' # pol \/ client'["c6"] # client["c6"]) =>
                /\ client'["c5"] = client["c5"] /\ fwd' = fwd
                /\ \A k \in DOMAIN NewHttp : NewHttp[k].cl = "c6"
           /\ \A k \in DOMAIN NewHttp :
                 NewHttp[k].uid \in {client[NewHttp[k].cl].channel_id,
                                     client'[NewHttp[k].cl].channel_id} ]_vars
    /\ [](UidsOf("c5") \cap UidsOf("c6") = {})
\* C28 witness: the forwarder's poke was refused with 403 and moved its client
\* to a new channel uid; the poller, logged in before that, then had a result
\* poke accepted on its own channel, with the id counter it had reached itself
C28_Witness ==
    \E i, j, k \in DOMAIN http :
        /\ i < j /\ j < k
        /\ http[i].cl = "c6" /\ http[i].e = "login" /\ http[i].resp = "ok"
        /\ http[j].cl = "c5" /\ http[j].e = "poke" /\ http[j].resp = "403"
        /\ client["c5"].channel_id > 2 /\ client["c5"].connected
        /\ http[k].cl = "c6" /\ http[k].e = "poke" /\ http[k].resp = "2xx"
        /\ http[k].uid = 2 /\ http[k].id = 1
        /\ client["c6"] = [channel_id |-> 2, next_id |-> 3, connected |-> TRUE]

\* the forwarder client's history, and the positions of its failed poke calls
FwdHttp == SelectSeq(http, LAMBDA h : h.cl = "c5")
FailedPokes == {j \in DOMAIN FwdHttp : FwdHttp[j].e = "ret" /\ FwdHttp[j].resp = "err"}
\* the logins that follow position j of the forwarder client's history
LoginsAfter(j) ==
    {k \in (j + 1)..Len(FwdHttp) : \A x \in (j + 1)..k : FwdHttp[x].e = "login"}

\* C29: after a failed poke that left the client disconnected the forwarder
\* runs connect_with_retry(3) to its end (a login accepted, or three refused)
\* before it takes the next packet; after a failed poke that left the client
\* connected it logs in nowhere; in both cases it is then back at rx.recv()
\* and takes the next packet as soon as there is one.
C29_ReconnectBeforeNextDequeue ==
    /\ [](\A j \in FailedPokes :
            LET n == Cardinality(LoginsAfter(j))
                last == j + n
                pending == j = Len(FwdHttp) /\ fwd.pc = "reconn"
            IN  IF FwdHttp[j].c.connected
                THEN /\ n = 0
                     /\ IF j = Len(FwdHttp) THEN fwd.pc \in {"recv", "poke"}
                        ELSE FwdHttp[j + 1].e = "call"
                ELSE \/ pending
                     \/ /\ n \in 1..ReconnectRetries
                        /\ FwdHttp[last].resp = "ok" \/ n = ReconnectRetries
                        /\ \A k \in (j + 1)..(last - 1) : FwdHttp[k].resp # "ok"
                        /\ IF last = Len(FwdHttp) THEN fwd.pc \in {"recv", "poke"}
                           ELSE FwdHttp[last + 1].e = "call")
    /\ [](fwd.pc = "reconn" => FailedPokes # {} /\ SetMax(FailedPokes) = Len(FwdHttp))
    /\ []((fwd.pc = "recv" /\ chan # <<>>) => ENABLED FwdRecv)
    /\ [][fwd.pc = "reconn" => (chan' = chan \/ Len(chan') > Len(chan))]_vars
\* C29 witness: a poke failed with the re-login refused, three more logins
\* were refused, and the forwarder went on to take the next packet; and a
\* poke failed with 500 and the next call followed without any login
C29_Witness ==
    /\ \E j \in FailedPokes :
          /\ ~FwdHttp[j].c.connected
          /\ Cardinality(LoginsAfter(j)) = 3
          /\ j + 4 <= Len(FwdHttp) /\ FwdHttp[j + 4].e = "call"
    /\ \E j \in FailedPokes :
          /\ FwdHttp[j].c.connected /\ FwdHttp[j - 1].resp = "500"
          /\ j + 1 <= Len(FwdHttp) /\ FwdHttp[j + 1].e = "call"

\* the poller client's history
PolHttp == SelectSeq(http, LAMBDA h : h.cl = "c6")
\* the step is a tick of the poller whose scry failed
ScryFailed == NewHttp # <<>> /\ NewHttp[1].e = "scry" /\ NewHttp[1].resp # "ok"
\* the step ends with a result poke of the poller that returned an error
ResultPokeFailed ==
    /\ NewHttp # <<>> /\ NewHttp[1].cl = "c6" /\ NewHttp[1].e = "call"
    /\ NewHttp[Len(NewHttp)].e = "ret" /\ NewHttp[Len(NewHttp)].resp = "err"
\* what holds of the poller whichever way a step fails: it ends only when the
\* first connect_with_retry fails; a tick whose scry fails builds no frame and
\* calls no send_downlink, logs in again (until accepted, three times at most)
\* when the client is disconnected and not otherwise, and waits for the next
\* tick; a tick whose outbox cannot be read as messages, or is empty, does the
\* same without any login; a failed result poke lets the loop go on with the
\* next message or the next tick; and a waiting poller ticks again.
PollerGoesOn ==
    /\ [](pol.pc = "exit" =>
             \A k \in DOMAIN PolHttp : PolHttp[k].e = "login" /\ PolHttp[k].resp # "ok")
    /\ [][ScryFailed =>
             LET n == Len(NewHttp) - 1
                 disconnected == ~client["c6"].connected \/ NewHttp[1].resp = "auth"
             IN  /\ plog' = plog /\ dl' = dl
                 /\ pol' = [pol EXCEPT !.ticks = pol.ticks + 1] /\ pol'.pc = "sleep"
                 /\ \A k \in 2..Len(NewHttp) : NewHttp[k].e = "login"
                 /\ IF disconnected
                    THEN /\ n \in 1..ReconnectRetries
                         /\ NewHttp[n + 1].resp = "ok" \/ n = ReconnectRetries
                         /\ \A k \in 2..n : NewHttp[k].resp # "ok"
                    ELSE n = 0]_vars
    /\ [][(NewHttp # <<>> /\ NewHttp[1].e = "scry" /\ NewHttp[1].resp = "ok") =>
             /\ Len(NewHttp) = 1 /\ plog' = plog /\ dl' = dl
             /\ pol'.pc \in {"sleep", "msg"} /\ pol'.fcnt = pol.fcnt
             /\ pol'.pc = "sleep" <=> pol'.msgs = <<>>]_vars
    /\ [][ResultPokeFailed =>
             /\ pol'.pc \in {"sleep", "msg"} /\ pol'.msgs = Tail(pol.msgs)
             /\ dl' = DlIdle /\ plog'[Len(plog')].e = "poke"]_vars
    /\ []((pol.pc = "sleep" /\ pol.ticks < MaxTicks) => ENABLED PolTick)

\* the failed scry or failed result poke at position j of the poller client's
\* history left the client disconnected
DisconnectingFailure(j) ==
    \/ /\ PolHttp[j].e = "ret" /\ PolHttp[j].resp = "err"
       /\ ~PolHttp[j].c.connected
    \/ /\ PolHttp[j].e = "scry" /\ PolHttp[j].resp # "ok"
       /\ PolHttp[j].resp = "auth" \/ ~PolHttp[j].c.connected

\* C30 as stated: the poller goes on after every failure, and whenever a
\* failed step has left the client disconnected (a failed result poke
\* included) the next thing the client does is log in again.
C30_PollerReconnectsAfterAnyFailure ==
    /\ PollerGoesOn
    /\ [](\A j \in DOMAIN PolHttp :
             (DisconnectingFailure(j) /\ j < Len(PolHttp)) => PolHttp[j + 1].e = "login")
\* C30 amended: the poller goes on after every failure; it logs in again only
\* in a tick whose scry failed with the client disconnected; a failed result
\* poke, whatever it did to the client, is followed by the next message of
\* the tick or by the next tick's scry, without a login in between.
C30_PollerReconnectsAfterScryOnly ==
    /\ PollerGoesOn
    /\ [](\A j \in DOMAIN PolHttp :
             (PolHttp[j].e = "ret" /\ j < Len(PolHttp)) =>
                 PolHttp[j + 1].e \in {"call", "scry"})
    /\ [](\A j \in DOMAIN PolHttp :
             (PolHttp[j].e = "login" /\ j > 1) =>
                 \/ PolHttp[j - 1].e \in {"login", "scry"}
                 \/ PolHttp[j - 1].e = "poke" /\ PolHttp[j - 1].resp \in {"401", "403"})
\* C30 witness: a result poke was refused with 401 and its re-login failed,
\* the next message's result poke followed at once on the disconnected
\* client; a later tick's scry failed and the poller logged in again and is
\* waiting for the next tick
C30_Witness ==
    /\ pol.pc = "sleep" /\ client["c6"].connected
    /\ \E j, k \in DOMAIN PolHttp :
          /\ j + 1 < k /\ k < Len(PolHttp)
          /\ PolHttp[j].e = "ret" /\ PolHttp[j].resp = "err" /\ ~PolHttp[j].c.connected
          /\ PolHttp[j - 1].e = "login"
          /\ PolHttp[j + 1].e = "call"
          /\ PolHttp[k].e = "scry" /\ PolHttp[k].resp # "ok"
          /\ PolHttp[k + 1].e = "login" /\ PolHttp[k + 1].resp = "ok"

\* the PULL_RESP datagrams handed to the socket, as positions of the log
PullRespIdx == {i \in DOMAIN log : log[i].e = "tx" /\ log[i].by = "dl"}
\* the step handles a TX_ACK that reports an error
ErrorReported ==
    /\ Len(log') > Len(log)
    /\ log'[Len(log')].e = "report" /\ ~log'[Len(log')].ok

\* C31: send_downlink returns with the outcome of the socket send, in the step
\* that hands the PULL_RESP to the socket and whatever TX_ACK has or has not
\* arrived; the poller's result poke is tx-ack exactly when that outcome was
\* Ok; a TX_ACK reporting an error changes nothing of the poller, its client
\* or the downlink call and sends nothing, so no tx-fail poke and no second
\* PULL_RESP follow from it: there is one PULL_RESP per frame built at most.
C31_TxAckPokeFromLocalOutcome ==
    /\ [](\A i \in PullRespIdx :
             /\ i < Len(log) /\ log[i + 1].e = "dlret" /\ log[i + 1].ok = log[i].ok)
    /\ [](dl.pc = "send" => ENABLED SendDownlinkSend)
    /\ [](\A k \in DOMAIN plog :
             plog[k].e = "poke" =>
                 (plog[k].s = "tx-ack" <=> (plog[k - 1].e = "dl" /\ plog[k - 1].s = "ok")))
    /\ [][ErrorReported =>
             /\ UNCHANGED <<http, plog, pol, dl, client, tracker, chan>>
             /\ Len(log') = Len(log) + 2 /\ log'[Len(log) + 1].e = "rx"]_vars
    /\ [](Cardinality(PullRespIdx) <= Len(Frames))
\* C31 witness: a PULL_RESP with token 0x1234 left the socket, the message was
\* reported with an accepted tx-ack poke, the gateway then answered TOO_LATE
\* with that token, and the poller is waiting for its next tick with no
\* tx-fail poked and one PULL_RESP sent per frame
C31_Witness ==
    /\ pol.pc = "sleep" /\ pol.ticks = 1 /\ dl.pc = "idle"
    /\ Cardinality(PullRespIdx) = Len(Frames)
    /\ \E i \in PullRespIdx :
          /\ log[i].ok /\ log[i].token = 4660
          /\ \E j \in (i + 1)..Len(log) :
                log[j].e = "report" /\ ~log[j].ok /\ log[j].token = 4660
    /\ \A k \in DOMAIN plog : plog[k].e = "poke" => plog[k].s = "tx-ack"
    /\ \E k \in DOMAIN plog : plog[k].e = "poke" /\ plog[k].id = 7
    /\ \E h \in DOMAIN http : http[h].e = "poke" /\ http[h].what = TxAckSuccess(7)
                              /\ http[h].resp = "2xx"

\* the devAddr field of a data frame: bytes 1..4 after MHDR, least significant
\* byte first
DevAddrOf(frame) == SubSeq(frame, 2, 5)
\* the address the claim has the poller choose for a message
ChosenAddr(msg) == IF Len(msg.src_addr) > 0 THEN msg.src_addr ELSE msg.dest_addr

HoldingToken == {name \in Sides : gw.loop[name].pc \in {"push_read", "push_send", "resp_read", "resp_send"}}
\* the tokens handed out so far: those of the generated datagrams and those held
HandedOut ==
    {GetU16(glog[k].hdr, 2) : k \in Generated} \cup {gw.loop[name].relay_token : name \in HoldingToken}
\* a step in which a receive loop takes value v as its relay token
TakesRelayToken(name, v) ==
    /\ gw.loop[name].pc \in {"recv", "push_ack"}
    /\ gw'.loop[name].pc \in {"push_read", "resp_read"}
    /\ gw'.loop[name].relay_token = v
\* a step in which a keepalive loop sends a PULL_DATA with token v
SendsKeepalive(v) ==
    /\ Len(glog') = Len(glog) + 1
    /\ LET e == glog'[Len(glog')]
       IN  e.e = "tx" /\ e.by = "keepalive" /\ e.hdr[4] = PullData /\ GetU16(e.hdr, 2) = v

\* C33: in pair mode every relay token and every keepalive token is the value
\* of the one shared 16-bit counter at an atomic fetch-and-increment: whichever
\* of the two receive loops and two keepalive loops runs next, a step that
\* changes the counter hands its old value to exactly that loop and leaves the
\* old value plus one modulo 65536 (0 after 65535), nothing else changes the
\* counter, and the tokens handed out so far are pairwise different and are
\* the values just below the counter.
C33_TokensFromOneCounter ==
    /\ [](gw.token_counter \in 0..65535)
    /\ [][gw'.token_counter # gw.token_counter =>
             /\ gw'.token_counter = (gw.token_counter + 1) % 65536
             /\ gw.token_counter = 65535 => gw'.token_counter = 0
             /\ \/ \E name \in Sides : /\ TakesRelayToken(name, gw.token_counter)
                                       /\ gw'.loop[Peer(name)] = gw.loop[Peer(name)]
                                       /\ gw'.nka = gw.nka
                \/ /\ SendsKeepalive(gw.token_counter)
                   /\ gw'.loop = gw.loop /\ gw'.nka = gw.nka + 1]_vars
    /\ [][gw'.token_counter = gw.token_counter =>
             /\ \A name \in Sides : ~TakesRelayToken(name, gw'.loop[name].relay_token)
             /\ gw'.nka = gw.nka
             /\ \A name \in HoldingToken :
                   gw'.loop[name].pc # "recv" => gw'.loop[name].relay_token = gw.loop[name].relay_token]_vars
    /\ [](LET n == Cardinality(Generated) + Cardinality(HoldingToken)
          IN  /\ n <= 65536
              /\ Cardinality(HandedOut) = n
              /\ HandedOut = {(gw.token_counter + 65536 - k) % 65536 : k \in 1..n})
\* C33 witness: the counter wrapped: 65534, 65535 and 0 were handed out, to a
\* keepalive loop and to both receive loops, and all three datagrams left
C33_Witness ==
    /\ gw.token_counter = 1
    /\ \E a, b, c \in Generated :
          /\ glog[a].by = "keepalive" /\ glog[b].by = "A" /\ glog[c].by = "B"
          /\ {GetU16(glog[a].hdr, 2), GetU16(glog[b].hdr, 2), GetU16(glog[c].hdr, 2)} = {65534, 65535, 0}

\* C34: of a data frame of at least 12 bytes whose FCtrl announces fOptsLen
\* bytes of FOpts, decoding fails when 8 + fOptsLen > length - 4; when
\* 8 + fOptsLen = length - 4 it succeeds with no fPort and an empty
\* frmPayload; when 8 + fOptsLen < length - 4 it succeeds, fPort is the byte
\* after FOpts and frmPayload the bytes from there up to the last four.
C34_FOptsAgainstMic ==
    ( /\ phy.pc = "decoded" /\ Len(phy.bytes) >= 12
      /\ MType_try_from(phy.bytes[1]) \in DataMTypes ) =>
        LET n == Len(phy.bytes)
            fOptsLen == phy.bytes[6] % 16
        IN  /\ 8 + fOptsLen > n - 4 => phy.out = DecodeErr("fopts_len")
            /\ 8 + fOptsLen <= n - 4 =>
                  /\ phy.out.ok /\ phy.out.kind = "Data"
                  /\ phy.out.fctrl.f_opts_len = fOptsLen
                  /\ phy.out.f_opts = [i \in 1..fOptsLen |-> phy.bytes[8 + i]]
            /\ 8 + fOptsLen = n - 4 =>
                  phy.out.f_port = <<>> /\ phy.out.frm_payload = <<>>
            /\ 8 + fOptsLen < n - 4 =>
                  /\ phy.out.f_port = <<phy.bytes[9 + fOptsLen]>>
                  /\ phy.out.frm_payload = [i \in 1..(n - 13 - fOptsLen) |-> phy.bytes[9 + fOptsLen + i]]
\* C34 witness: 15 bytes with fOptsLen 3: FOpts 17, 18, 19 end where the
\* integrity field starts, and the frame decodes without fPort
C34_Witness ==
    /\ phy.pc = "decoded" /\ Len(phy.bytes) = 15 /\ phy.bytes[6] = 131
    /\ phy.out.ok /\ phy.out.f_opts = <<17, 18, 19>>
    /\ phy.out.f_port = <<>> /\ phy.out.frm_payload = <<>>
    /\ phy.out.fctrl.adr

\* the tracker writes recorded so far
SetIdx == {i \in DOMAIN log : log[i].e = "set"}

\* C35: a tracker that holds an address holds one in every later state: the
\* only step that writes it is the PULL_DATA arm's set, which stores the
\* datagram's source; no other datagram, no TX_ACK report, no failed send and
\* no step of send_downlink changes it, and it holds the address of the last
\* set recorded, or none before the first.
C35_TrackerNeverCleared ==
    /\ [][tracker # None => tracker' # None]_vars
    /\ [][tracker' # tracker =>
             /\ rpc = "pull_set" /\ cur.kind = PullData /\ tracker' = cur.src
             /\ log' = Append(log, EvSet(cur.src))
             /\ dl' = dl]_vars
    /\ [][(dl' # dl \/ ErrorReported \/ (Len(log') > Len(log) /\ ~log'[Len(log')].ok)) =>
             tracker' = tracker]_vars
    /\ [](tracker = IF SetIdx = {} THEN None ELSE log[SetMax(SetIdx)].addr)
\* C35 witness: after the tracker took S1, a TX_ACK reported TOO_LATE and a
\* send_downlink call failed at the socket; the tracker still holds S1
C35_Witness ==
    /\ tracker = "S1" /\ dl.pc = "done" /\ dl.res = "socket" /\ rpc = "recv"
    /\ \E i, j, k \in DOMAIN log :
          /\ i < j /\ i < k
          /\ log[i].e = "set" /\ log[i].addr = "S1"
          /\ log[j].e = "report" /\ ~log[j].ok /\ log[j].token = 44
          /\ log[k].e = "tx" /\ log[k].by = "dl" /\ ~log[k].ok

\* what the poller's history gained in a step
NewPlog == SubSeq(plog', Len(plog) + 1, Len(plog'))
\* the history entries of kind e
PlogOf(e) == {k \in DOMAIN plog : plog[k].e = e}

\* C36: the poller's fcnt changes only in the step that builds a frame, by one
\* modulo 65536, before send_downlink is called; the step that takes the
\* result of send_downlink leaves it whether the call returned Ok, found no
\* gateway address or failed at the socket (then tx-fail is poked), and the
\* step that rejects a message for its address or its payload hex leaves it
\* and builds nothing: fcnt counts the frames built, which are the messages
\* handled less the rejected ones, not the downlinks that were sent.
C36_FcntCountsFramesBuilt ==
    /\ [][pol'.fcnt # pol.fcnt =>
             /\ pol.pc = "msg" /\ pol'.pc = "wait"
             /\ pol'.fcnt = (pol.fcnt + 1) % 65536
             /\ NewPlog = <<P("msg", Head(pol.msgs).id, 0, ""), P("frame", Head(pol.msgs).id, pol.fcnt, "")>>
             /\ dl'.pc = "get"]_vars
    /\ [][(pol.pc = "wait" /\ pol' # pol) =>
             /\ pol'.fcnt = pol.fcnt
             /\ NewPlog = <<P("dl", Head(pol.msgs).id, 0, dl.res),
                            P("poke", Head(pol.msgs).id, 0, IF dl.res = "ok" THEN "tx-ack" ELSE "tx-fail")>>
             /\ dl.res \in {"ok", "no_gateway", "socket"}]_vars
    /\ [][(pol.pc = "msg" /\ pol' # pol /\ Head(pol.msgs).id \in {9, 10, 11}) =>
             /\ pol'.fcnt = pol.fcnt /\ pol'.frame_bytes = pol.frame_bytes
             /\ \A k \in DOMAIN NewPlog : NewPlog[k].e # "frame"
             /\ NewPlog[2].e = (IF Head(pol.msgs).id = 9 THEN "badaddr" ELSE "badhex")]_vars
    /\ [](/\ Len(Frames) = Cardinality(PlogOf("msg")) - Cardinality(PlogOf("badaddr") \cup PlogOf("badhex"))
          /\ pol.fcnt = (pol.base + Len(Frames)) % 65536
          /\ Cardinality({k \in PlogOf("dl") : plog[k].s = "ok"}) <= Len(Frames)
          /\ \A k \in PlogOf("dl") : plog[k - 1].e = "frame")
\* C36 witness: three frames in a row of which the middle one was refused by
\* the socket and reported tx-fail: the two downlinks that left carry fcnt
\* values two apart
C36_Witness ==
    \E i \in DOMAIN plog :
        /\ i + 11 <= Len(plog)
        /\ plog[i + 1].e = "frame" /\ plog[i + 2].e = "dl" /\ plog[i + 2].s = "ok"
        /\ plog[i + 5].e = "frame" /\ plog[i + 5].n = (plog[i + 1].n + 1) % 65536
        /\ plog[i + 6].e = "dl" /\ plog[i + 6].s = "socket"
        /\ plog[i + 7].e = "poke" /\ plog[i + 7].s = "tx-fail"
        /\ plog[i + 9].e = "frame" /\ plog[i + 9].n = (plog[i + 1].n + 2) % 65536
        /\ plog[i + 10].e = "dl" /\ plog[i + 10].s = "ok"

\* the frames built so far for the message with this id
FramesOf(id) == {k \in DOMAIN plog : plog[k].e = "frame" /\ plog[k].id = id}
\* the poller takes the whole array msgs of a scry answer as the tick's work
TakesOutbox(msgs) == PolTick /\ pol'.pc = "msg" /\ pol'.msgs = msgs

\* C37: the poller keeps no record of what it dispatched: whatever its history
\* holds, a tick whose scry answers with a non-empty array takes every message
\* of the array, those it built frames for in an earlier tick included, and
\* such a message is encoded again with the fcnt of that moment, which none of
\* its earlier frames carries, and handed to send_downlink again.
C37_NoRecordOfDispatchedIds ==
    /\ []((pol.pc = "sleep" /\ pol.ticks < MaxTicks) =>
             \A o \in Outboxes : (o.parse /\ o.msgs # <<>>) => ENABLED TakesOutbox(o.msgs))
    /\ [][(pol.pc = "sleep" /\ pol'.pc = "msg") =>
             \E o \in Outboxes : o.parse /\ pol'.msgs = o.msgs]_vars
    /\ [][(pol.pc = "msg" /\ pol' # pol /\ Head(pol.msgs).id \in {7, 8}) =>
             /\ pol'.pc = "wait" /\ dl'.pc = "get"
             /\ FramesOf(Head(pol.msgs).id)' = FramesOf(Head(pol.msgs).id) \cup {Len(plog')}
             /\ plog'[Len(plog')].n = pol.fcnt
             /\ \A k \in FramesOf(Head(pol.msgs).id) : plog[k].n # pol.fcnt]_vars
\* C37 witness: message 7 was dispatched in the first tick, its tx-ack poke was
\* answered 500, the outbox of the second tick still held it, and a second
\* PULL_RESP with another fcnt left for the gateway
C37_Witness ==
    /\ \E j, k \in FramesOf(7) :
          /\ j < k /\ k < Len(plog) /\ plog[j].n # plog[k].n
          /\ plog[j + 1].e = "dl" /\ plog[j + 1].s = "ok"
          /\ plog[k + 1].e = "dl" /\ plog[k + 1].s = "ok"
    /\ Cardinality({i \in PullRespIdx : log[i].ok}) >= 2
    /\ \E h \in DOMAIN PolHttp :
          /\ PolHttp[h].e = "poke" /\ PolHttp[h].what = TxAckSuccess(7) /\ PolHttp[h].resp = "500"
          /\ \E g \in (h + 1)..Len(PolHttp) : PolHttp[g].e = "scry" /\ PolHttp[g].resp = "ok"

\* the step is a call of the owner on its client other than a connect
OwnerCallsNoConnect ==
    /\ ncall' = ncall + 1
    /\ \A k \in DOMAIN NewHttp : NewHttp[k].e # "login"

\* C38: on a client that is not connected, a poke call returns an error
\* without any request having been sent, and a disconnect call returns
\* without any request having been sent; either leaves the channel uid, the id
\* counter and the connected flag as they were.
C38_NotConnectedCallsChangeNothing ==
    [][(~client["c5"].connected /\ OwnerCallsNoConnect) =>
          /\ client' = client /\ uidCtr' = uidCtr
          /\ \/ NewHttp = <<>>
             \/ /\ Len(NewHttp) = 2
                /\ NewHttp[1].e = "call" /\ NewHttp[1].id = client["c5"].next_id
                /\ NewHttp[2].e = "ret" /\ NewHttp[2].resp = "err"
                /\ NewHttp[2].id = client["c5"].next_id
                /\ NewHttp[2].uid = client["c5"].channel_id]_vars
\* C38 witness: three calls of the owner: a connect_with_retry(5) whose five
\* logins were refused, a disconnect that sent nothing, and a poke that
\* returned an error without a request; the client is as new() left it
C38_Witness ==
    /\ ncall = 3 /\ Len(http) = 7
    /\ \A k \in 1..5 : http[k].e = "login" /\ http[k].resp # "ok"
    /\ http[6].e = "call" /\ http[7].e = "ret" /\ http[7].resp = "err"
    /\ client["c5"] = NewClient(1) /\ uidCtr = 2

\* the datagram number n was read as this position of the pair's history
RxOf(n) == CHOOSE i \in DOMAIN glog : glog[i].e = "rx" /\ glog[i].n = n

\* C39: in pair mode a side sends for every PULL_RESP it reads one TX_ACK and
\* one only, from the socket the PULL_RESP came in on to its source, of
\* twelve bytes: version 2, the PULL_RESP's token, kind TX_ACK and the side's
\* own gateway id, without body; so too when the body is not JSON or has no
\* txpk member, and then no PUSH_DATA is sent for it and the peer's tracker is
\* not read; with a txpk the relay leaves before the TX_ACK.  The trackers
\* change only when a PUSH_DATA or a PULL_DATA is handled.
C39_PairAcksEveryPullResp ==
    /\ [](\A i \in DOMAIN glog :
            (glog[i].e = "rx" /\ GKind(i) = PullResp) =>
                LET acks == TxAcksOf(glog[i].n)
                    rel == RelaysOf(glog[i].n)
                    side == glog[i].sock
                IN  /\ Cardinality(acks) <= 1
                    /\ GwDone(i) => Cardinality(acks) = 1
                    /\ \A k \in acks :
                          /\ k > i /\ glog[k].by = side /\ glog[k].sock = side
                          /\ glog[k].peer = glog[i].peer
                          /\ glog[k].hdr = <<2>> \o SubSeq(glog[i].hdr, 2, 3) \o <<5>> \o ConfiguredEui(side)
                          /\ glog[k].raw = <<>> /\ glog[k].rxpk = <<>>
                          /\ \A r \in rel : r < k
                    /\ Cardinality(rel) <= 1
                    /\ ~(glog[i].js.parse /\ glog[i].js.has_txpk) =>
                          /\ rel = {}
                          /\ ~\E r \in DOMAIN glog : glog[r].e = "read" /\ glog[r].n = glog[i].n)
    /\ [](\A k \in DOMAIN glog :
            glog[k].e = "set" => GKind(RxOf(glog[k].n)) \in {PushData, PullData})
    /\ [][gw'.bridge_addr # gw.bridge_addr =>
             \E name \in Sides :
                 /\ gw.loop[name].pc \in {"push_set", "pull_set"}
                 /\ gw.loop[name].pkt.hdr[4] \in {PushData, PullData}
                 /\ gw'.bridge_addr = [gw.bridge_addr EXCEPT ![name] = gw.loop[name].pkt.src]]_vars
\* C39 witness: side B answered a PULL_RESP whose body is not JSON with a
\* TX_ACK of token 4663 and relayed nothing, side A relayed a PULL_RESP with a
\* txpk and answered it with token 4660; no tracker was written
C39_Witness ==
    /\ gw.bridge_addr = [g \in {"A", "B"} |-> None]
    /\ \E i, j \in DOMAIN glog :
          /\ glog[i].e = "rx" /\ GKind(i) = PullResp /\ glog[i].sock = "B" /\ ~glog[i].js.parse
          /\ GetU16(glog[i].hdr, 2) = 4663
          /\ RelaysOf(glog[i].n) = {}
          /\ \E k \in TxAcksOf(glog[i].n) : GetU16(glog[k].hdr, 2) = 4663 /\ glog[k].peer = "X"
          /\ glog[j].e = "rx" /\ GKind(j) = PullResp /\ glog[j].sock = "A" /\ glog[j].js.has_txpk
          /\ Cardinality(RelaysOf(glog[j].n)) = 1
          /\ \E k \in TxAcksOf(glog[j].n) : GetU16(glog[k].hdr, 2) = 4660

\* C40: the receive loop does not stay for ever in an enqueue: with room on
\* the channel, or with the forwarder gone, the enqueue step can be taken at
\* once (and with the forwarder gone it puts nothing on the channel), and
\* under fair scheduling the loop is back at recv_from after every datagram
\* it read, and every PUSH_DATA read has got its PUSH_ACK.
C40_ReceiveLoopNeverBlocksForever ==
    /\ []((rpc = "rxpk" /\ (Len(chan) < ChannelCapacity \/ fwd.pc = "exit")) => ENABLED PushRxpk)
    /\ [][(rpc = "rxpk" /\ fwd.pc = "exit" /\ (rxi' # rxi \/ rpc' # rpc)) => chan' = chan]_vars
    /\ (rpc # "recv") ~> (rpc = "recv")
    /\ (Cardinality(PushRxIdx) > Cardinality(PushAckIdx))
          ~> (Cardinality(PushRxIdx) = Cardinality(PushAckIdx))

====
